---------------------------- MODULE Spec2Model ----------------------------
(***************************************************************************)
(* Quota providers engine of the desktop shell                             *)
(* (packages/desktop/src-tauri/src/quota_providers.rs).                    *)
(*                                                                         *)
(* The state is the credential store, the two multi-account files, the     *)
(* wall clock and, per calling task, the position of its call to           *)
(* list_configured_quota_providers or fetch_quota_for_provider together    *)
(* with the call's local variables, the HTTP requests it has issued and    *)
(* the responses it has received.                                          *)
(*                                                                         *)
(* JSON values are tagged records, Option<T> is a sequence of length 0     *)
(* or 1, an f64 is an integer count of thousandths.  Timestamps are small  *)
(* enough for i64 arithmetic not to overflow.                              *)
(***************************************************************************)
EXTENDS Integers, Sequences, FiniteSets, TLC

VARIABLES
    store,   \* the credential store file as opencode_auth::read_auth sees it
    files,   \* the two antigravity-accounts.json files, in path order
    now,     \* wall clock, epoch milliseconds
    net,     \* the network layer: live, or a stub with one answer per URL
    calls    \* per task: the call in progress and its outcome

vars == <<store, files, now, net, calls>>

---------------------------------------------------------------------------
(* Option<T> *)

None == <<>>
Some(x) == <<x>>
IsSome(o) == o # <<>>
IsNone(o) == o = <<>>
Unwrap(o) == o[1]
\* Option::or
OrElse(a, b) == IF IsSome(a) THEN a ELSE b

Range(s) == {s[i] : i \in DOMAIN s}

---------------------------------------------------------------------------
(* serde_json::Value *)

\* A JSON string is the sequence of its pieces between '|' characters:
\* "abc123|proj-9" is <<"abc123", "proj-9">>, and S("abc") is "abc".
S(x) == <<x>>
\* str::rsplit_once('|'): the split at the last '|'
rsplit_once(s) ==
    IF Len(s) >= 2 THEN Some(<<SubSeq(s, 1, Len(s) - 1), S(s[Len(s)])>>) ELSE None

\* str::split_once('|')
split_once(s) == IF Len(s) >= 2 THEN Some(<<S(Head(s)), Tail(s)>>) ELSE None

JNull == [t |-> "null"]
JStr(s) == [t |-> "str", s |-> s]
JInt(n) == [t |-> "int", n |-> n]
\* a number with a fractional part, given in thousandths: JFlt(1500) is 1.5
JFlt(d) == [t |-> "flt", d |-> d]
JArr(a) == [t |-> "arr", a |-> a]
\* o is a function from keys to values; <<>> is the empty object
JObj(o) == [t |-> "obj", o |-> o]

\* Value::get(key): None unless the value is an object holding the key
JGet(v, k) == IF v.t = "obj" /\ k \in DOMAIN v.o THEN Some(v.o[k]) ELSE None
\* opt.and_then(|v| v.get(key))
OGet(ov, k) == IF IsSome(ov) THEN JGet(Unwrap(ov), k) ELSE None
\* opt.and_then(|v| v.as_str())
AsStr(ov) == IF IsSome(ov) /\ Unwrap(ov).t = "str" THEN Some(Unwrap(ov).s) ELSE None
\* opt.and_then(|v| v.as_i64()): integers only
AsI64(ov) == IF IsSome(ov) /\ Unwrap(ov).t = "int" THEN Some(Unwrap(ov).n) ELSE None
\* an integer as f64
F64(n) == n * 1000
\* opt.and_then(|v| v.as_f64())
AsF64(ov) ==
    IF IsNone(ov) THEN None
    ELSE IF Unwrap(ov).t = "int" THEN Some(F64(Unwrap(ov).n))
    ELSE IF Unwrap(ov).t = "flt" THEN Some(Unwrap(ov).d)
    ELSE None
\* opt.and_then(|v| v.as_array())
AsArray(ov) == IF IsSome(ov) /\ Unwrap(ov).t = "arr" THEN Some(Unwrap(ov).a) ELSE None
\* opt.and_then(|v| v.as_object())
AsObject(ov) == IF IsSome(ov) /\ Unwrap(ov).t = "obj" THEN Some(Unwrap(ov).o) ELSE None

\* f64::round, as an integer: half away from zero
RoundF64(d) == IF d >= 0 THEN (d + 500) \div 1000 ELSE -((500 - d) \div 1000)
\* i64 division truncates toward zero
TruncDiv(a, b) == IF a >= 0 THEN a \div b ELSE -((-a) \div b)
Max(a, b) == IF a >= b THEN a ELSE b

---------------------------------------------------------------------------
(* Credential store and multi-account files *)

\* opencode_auth::read_auth: the parsed store, or an error when the file
\* cannot be read or parsed
read_auth(st) ==
    IF st.k = "unreadable" THEN [ok |-> FALSE, err |-> "Failed to read auth file"]
    ELSE [ok |-> TRUE, value |-> st.json]

\* load_auth_map taking a store that is no object for an empty one
load_auth_map_or_default(st) ==
    LET auth == read_auth(st) IN
    IF ~auth.ok THEN auth
    ELSE IF auth.value.t = "obj" THEN [ok |-> TRUE, value |-> auth.value.o]
    ELSE [ok |-> TRUE, value |-> <<>>]

load_auth_map(st) ==
    LET auth == read_auth(st) IN
    IF ~auth.ok THEN auth
    ELSE IF auth.value.t = "obj" THEN [ok |-> TRUE, value |-> auth.value.o]
    ELSE [ok |-> FALSE, err |-> "Auth file is not a valid JSON object"]

\* a file is missing, unreadable, or holds text: blank, malformed, or JSON
read_json_file(f) ==
    IF f.k = "missing" THEN None
    ELSE IF f.k = "unreadable" THEN None
    ELSE IF f.k = "blank" THEN None
    ELSE IF f.k = "malformed" THEN None
    ELSE Some(f.json)

RECURSIVE get_auth_entry(_, _)
get_auth_entry(auth, aliases) ==
    IF aliases = <<>> THEN None
    ELSE IF Head(aliases) \in DOMAIN auth THEN Some(auth[Head(aliases)])
    ELSE get_auth_entry(auth, Tail(aliases))

AuthEntryDefault ==
    [token |-> None, access |-> None, refresh |-> None, expires |-> None, key |-> None]

normalize_auth_entry(value) ==
    IF IsNone(value) THEN None
    ELSE LET v == Unwrap(value) IN
         IF v.t = "str" THEN Some([AuthEntryDefault EXCEPT !.token = Some(v.s)])
         ELSE IF v.t = "obj" THEN
             Some([token   |-> AsStr(JGet(v, "token")),
                   access  |-> AsStr(JGet(v, "access")),
                   refresh |-> AsStr(JGet(v, "refresh")),
                   expires |-> LET i == AsI64(JGet(v, "expires"))
                                   f == AsF64(JGet(v, "expires"))
                               IN  IF IsSome(i) THEN i
                                   ELSE IF IsSome(f) THEN Some(RoundF64(Unwrap(f)))
                                   ELSE None,
                   key     |-> AsStr(JGet(v, "key"))])
         ELSE None

OPENAI_ALIASES == <<"openai", "codex", "chatgpt">>
GOOGLE_ALIASES == <<"google", "antigravity">>
ZAI_ALIASES == <<"zai-coding-plan", "zai", "z.ai">>

RECURSIVE has_antigravity_accounts_from(_, _)
has_antigravity_accounts_from(fs, i) ==
    IF i > Len(fs) THEN FALSE
    ELSE LET data == read_json_file(fs[i])
             accounts == AsArray(OGet(data, "accounts"))
         IN  IF IsSome(accounts) /\ Unwrap(accounts) # <<>> THEN TRUE
             ELSE has_antigravity_accounts_from(fs, i + 1)

has_antigravity_accounts(fs) == has_antigravity_accounts_from(fs, 1)

---------------------------------------------------------------------------
(* Usage normalizer *)

DayMs == 24 * 60 * 60 * 1000

\* The rendering of a reset time: time only when it falls on today's date,
\* date and time otherwise; both show the time to the minute.
format_reset_time(timestamp_ms, clock) ==
    IF timestamp_ms \div DayMs = clock \div DayMs
    THEN Some([style |-> "%-I:%M %p", minute |-> timestamp_ms \div 60000])
    ELSE Some([style |-> "%b %-d, %a %-I:%M %p", minute |-> timestamp_ms \div 60000])

\* calculate_reset_after_seconds without the clamp at zero
calculate_reset_after_seconds_unclamped(reset_at, clock) ==
    IF IsNone(reset_at) THEN None
    ELSE LET delta == TruncDiv(Unwrap(reset_at) - clock, 1000)
         IN  Some(delta)

calculate_reset_after_seconds(reset_at, clock) ==
    IF IsNone(reset_at) THEN None
    ELSE LET delta == TruncDiv(Unwrap(reset_at) - clock, 1000)
         IN  Some(Max(delta, 0))

\* to_usage_window without the clamp at zero
to_usage_window_unclamped(used_percent, window_seconds, reset_at, clock) ==
    LET remaining_percent ==
            IF IsSome(used_percent)
            THEN Some(F64(100) - Unwrap(used_percent))
            ELSE None
        reset_formatted ==
            IF IsSome(reset_at) THEN format_reset_time(Unwrap(reset_at), clock) ELSE None
    IN  [used_percent          |-> used_percent,
         remaining_percent     |-> remaining_percent,
         window_seconds        |-> window_seconds,
         reset_after_seconds   |-> calculate_reset_after_seconds(reset_at, clock),
         reset_at              |-> reset_at,
         reset_at_formatted    |-> reset_formatted,
         reset_after_formatted |-> reset_formatted]

to_usage_window(used_percent, window_seconds, reset_at, clock) ==
    LET remaining_percent ==
            IF IsSome(used_percent)
            THEN Some(Max(F64(100) - Unwrap(used_percent), 0))
            ELSE None
        reset_formatted ==
            IF IsSome(reset_at) THEN format_reset_time(Unwrap(reset_at), clock) ELSE None
    IN  [used_percent          |-> used_percent,
         remaining_percent     |-> remaining_percent,
         window_seconds        |-> window_seconds,
         reset_after_seconds   |-> calculate_reset_after_seconds(reset_at, clock),
         reset_at              |-> reset_at,
         reset_at_formatted    |-> reset_formatted,
         reset_after_formatted |-> reset_formatted]

\* build_result with the two flags taken in the wrong order
build_result_flags_swapped(provider_id, provider_name, ok, configured, usage, error, clock) ==
    [provider_id   |-> provider_id,
     provider_name |-> provider_name,
     ok            |-> configured,
     configured    |-> ok,
     error         |-> error,
     usage         |-> usage,
     fetched_at    |-> clock]

build_result(provider_id, provider_name, ok, configured, usage, error, clock) ==
    [provider_id   |-> provider_id,
     provider_name |-> provider_name,
     ok            |-> ok,
     configured    |-> configured,
     error         |-> error,
     usage         |-> usage,
     fetched_at    |-> clock]

\* value.as_f64().or_else(|| value.as_i64().map(|v| v as f64))
parse_number(value) == AsF64(value)

\* HashMap::insert: a later value for a key replaces the earlier one
MapInsert(m, k, v) == (k :> v) @@ m

---------------------------------------------------------------------------
(* HTTP *)

OPENAI_URL == "https://chatgpt.com/backend-api/wham/usage"
ZAI_URL == "https://api.z.ai/api/monitor/usage/quota/limit"
GOOGLE_TOKEN_URL == "https://oauth2.googleapis.com/token"
GOOGLE_ENDPOINTS ==
    << "https://daily-cloudcode-pa.sandbox.googleapis.com",
       "https://autopush-cloudcode-pa.sandbox.googleapis.com",
       "https://cloudcode-pa.googleapis.com" >>
DEFAULT_PROJECT_ID == S("rising-fact-p41fc")
GOOGLE_WINDOW_SECONDS == 5 * 60 * 60

\* A response is a transport error (the request failed or timed out), or a
\* status with a body that parses as JSON or does not.
TransportError(msg) == [k |-> "err", msg |-> msg]
Http(status, body) == [k |-> "http", status |-> status, body |-> body]
\* StatusCode::is_success
is_success(status) == status >= 200 /\ status <= 299
\* the message of the serde error response.json() gives for such a body
ParseMessage == "error decoding response body"

---------------------------------------------------------------------------
(* OpenAI adapter: the response of the usage request to the result *)

\* openai_window taking reset_at for the seconds left from now on
openai_window_relative(w, clock) ==
    LET reset_at == AsI64(JGet(w, "reset_at")) IN
    to_usage_window(parse_number(JGet(w, "used_percent")),
                    AsI64(JGet(w, "limit_window_seconds")),
                    IF IsSome(reset_at) THEN Some(clock + Unwrap(reset_at) * 1000) ELSE None,
                    clock)

openai_window(w, clock) ==
    LET reset_at == AsI64(JGet(w, "reset_at")) IN
    to_usage_window(parse_number(JGet(w, "used_percent")),
                    AsI64(JGet(w, "limit_window_seconds")),
                    IF IsSome(reset_at) THEN Some(Unwrap(reset_at) * 1000) ELSE None,
                    clock)

openai_usage(payload, clock) ==
    LET primary == OGet(JGet(payload, "rate_limit"), "primary_window")
        secondary == OGet(JGet(payload, "rate_limit"), "secondary_window")
        w1 == IF IsSome(primary)
              THEN MapInsert(<<>>, "5h", openai_window(Unwrap(primary), clock))
              ELSE <<>>
        w2 == IF IsSome(secondary)
              THEN MapInsert(w1, "weekly", openai_window(Unwrap(secondary), clock))
              ELSE w1
    IN  [windows |-> w2, models |-> None]

\* openai_outcome reading the body before the status
openai_outcome_body_first(response, clock) ==
    IF response.k = "err"
    THEN build_result("openai", "OpenAI", FALSE, TRUE, None, Some(response.msg), clock)
    ELSE IF IsNone(response.body)
    THEN build_result("openai", "OpenAI", FALSE, TRUE, None, Some(ParseMessage), clock)
    ELSE IF ~is_success(response.status)
    THEN build_result("openai", "OpenAI", FALSE, TRUE, None,
                      Some("API error: " \o ToString(response.status)), clock)
    ELSE build_result("openai", "OpenAI", TRUE, TRUE,
                      Some(openai_usage(Unwrap(response.body), clock)), None, clock)

openai_outcome(response, clock) ==
    IF response.k = "err"
    THEN build_result("openai", "OpenAI", FALSE, TRUE, None, Some(response.msg), clock)
    ELSE IF ~is_success(response.status)
    THEN build_result("openai", "OpenAI", FALSE, TRUE, None,
                      Some("API error: " \o ToString(response.status)), clock)
    ELSE IF IsNone(response.body)
    THEN build_result("openai", "OpenAI", FALSE, TRUE, None, Some(ParseMessage), clock)
    ELSE build_result("openai", "OpenAI", TRUE, TRUE,
                      Some(openai_usage(Unwrap(response.body), clock)), None, clock)

---------------------------------------------------------------------------
(* z.ai adapter *)

normalize_timestamp(value) ==
    LET num == AsI64(value) IN
    IF IsNone(num) THEN None
    \* num < 1_000_000_000_000, written for 32-bit integer arithmetic
    ELSE IF Unwrap(num) \div 1000 < 1000000000 THEN Some(Unwrap(num) * 1000)
    ELSE num

resolve_window_seconds(limit) ==
    LET number == AsI64(JGet(limit, "number"))
        unit == AsI64(JGet(limit, "unit"))
    IN  IF IsNone(number) \/ IsNone(unit) THEN None
        ELSE IF Unwrap(unit) = 3 THEN Some(3600 * Unwrap(number))
        ELSE None

\* resolve_window_label with no name of its own for seven days
resolve_window_label_plain(window_seconds) ==
    IF IsNone(window_seconds) THEN "tokens"
    ELSE LET w == Unwrap(window_seconds) IN
         IF w % 86400 = 0 THEN ToString(TruncDiv(w, 86400)) \o "d"
         ELSE IF w % 3600 = 0 THEN ToString(TruncDiv(w, 3600)) \o "h"
         ELSE ToString(w) \o "s"

resolve_window_label(window_seconds) ==
    IF IsNone(window_seconds) THEN "tokens"
    ELSE LET w == Unwrap(window_seconds) IN
         IF w % 86400 = 0
         THEN IF TruncDiv(w, 86400) = 7 THEN "weekly"
              ELSE ToString(TruncDiv(w, 86400)) \o "d"
         ELSE IF w % 3600 = 0 THEN ToString(TruncDiv(w, 3600)) \o "h"
         ELSE ToString(w) \o "s"

\* limits.iter().find(|limit| type == "TOKENS_LIMIT")
RECURSIVE find_tokens_limit(_)
find_tokens_limit(limits) ==
    IF limits = <<>> THEN None
    ELSE IF AsStr(JGet(Head(limits), "type")) = Some(S("TOKENS_LIMIT")) THEN Some(Head(limits))
    ELSE find_tokens_limit(Tail(limits))

zai_usage(payload, clock) ==
    LET arr == AsArray(OGet(JGet(payload, "data"), "limits"))
        limits == IF IsSome(arr) THEN Unwrap(arr) ELSE <<>>
        tokens_limit == find_tokens_limit(limits)
    IN  IF IsNone(tokens_limit) THEN [windows |-> <<>>, models |-> None]
        ELSE LET limit == Unwrap(tokens_limit)
                 window_seconds == resolve_window_seconds(limit)
             IN  [windows |-> MapInsert(<<>>, resolve_window_label(window_seconds),
                                 to_usage_window(parse_number(JGet(limit, "percentage")),
                                                 window_seconds,
                                                 normalize_timestamp(JGet(limit, "nextResetTime")),
                                                 clock)),
                  models |-> None]

\* zai_outcome without the test of the status
zai_outcome_ignoring_status(response, clock) ==
    IF response.k = "err"
    THEN build_result("zai-coding-plan", "z.ai", FALSE, TRUE, None, Some(response.msg), clock)
    ELSE IF IsNone(response.body)
    THEN build_result("zai-coding-plan", "z.ai", FALSE, TRUE, None, Some(ParseMessage), clock)
    ELSE build_result("zai-coding-plan", "z.ai", TRUE, TRUE,
                      Some(zai_usage(Unwrap(response.body), clock)), None, clock)

zai_outcome(response, clock) ==
    IF response.k = "err"
    THEN build_result("zai-coding-plan", "z.ai", FALSE, TRUE, None, Some(response.msg), clock)
    ELSE IF ~is_success(response.status)
    THEN build_result("zai-coding-plan", "z.ai", FALSE, TRUE, None,
                      Some("API error: " \o ToString(response.status)), clock)
    ELSE IF IsNone(response.body)
    THEN build_result("zai-coding-plan", "z.ai", FALSE, TRUE, None, Some(ParseMessage), clock)
    ELSE build_result("zai-coding-plan", "z.ai", TRUE, TRUE,
                      Some(zai_usage(Unwrap(response.body), clock)), None, clock)

---------------------------------------------------------------------------
(* Google adapter *)

\* account_at taking the last account for an index beyond the list
account_at_clamped(accounts, index) ==
    IF index + 1 <= Len(accounts) THEN accounts[index + 1] ELSE accounts[Len(accounts)]

\* accounts.get(index).or_else(|| accounts.first()), index counted from 0
account_at(accounts, index) ==
    IF index + 1 <= Len(accounts) THEN accounts[index + 1] ELSE accounts[1]

RECURSIVE resolve_google_accounts(_, _)
resolve_google_accounts(fs, i) ==
    IF i > Len(fs) THEN None
    ELSE LET data == read_json_file(fs[i])
             accounts == AsArray(OGet(data, "accounts"))
         IN  IF IsNone(data) \/ IsNone(accounts) \/ accounts = Some(<<>>)
             THEN resolve_google_accounts(fs, i + 1)
             ELSE LET ai == AsI64(OGet(data, "activeIndex"))
                      index == Max(IF IsSome(ai) THEN Unwrap(ai) ELSE 0, 0)
                      account == account_at(Unwrap(accounts), index)
                      refresh_token == AsStr(JGet(account, "refreshToken"))
                  IN  IF IsNone(refresh_token)
                      THEN resolve_google_accounts(fs, i + 1)
                      ELSE Some([access_token  |-> None,
                                 refresh_token |-> refresh_token,
                                 expires       |-> None,
                                 project_id    |-> OrElse(AsStr(JGet(account, "projectId")),
                                                          AsStr(JGet(account, "managedProjectId")))])

\* resolve_google_auth passing over a primary entry that holds no access,
\* plain or refresh token
resolve_google_auth_usable(st, fs) ==
    LET auth == load_auth_map(st) IN
    IF ~auth.ok THEN auth
    ELSE LET entry == normalize_auth_entry(get_auth_entry(auth.value, GOOGLE_ALIASES)) IN
         IF /\ IsSome(entry)
            /\ \/ IsSome(Unwrap(entry).access)
               \/ IsSome(Unwrap(entry).token)
               \/ IsSome(Unwrap(entry).refresh)
         THEN LET e == Unwrap(entry)
                  parts == IF IsSome(e.refresh) THEN split_once(Unwrap(e.refresh)) ELSE None
              IN  [ok |-> TRUE,
                   value |-> Some([access_token  |-> OrElse(e.access, e.token),
                                   refresh_token |-> IF IsSome(parts)
                                                     THEN Some(Unwrap(parts)[1])
                                                     ELSE e.refresh,
                                   expires       |-> e.expires,
                                   project_id    |-> IF IsSome(parts)
                                                     THEN Some(Unwrap(parts)[2])
                                                     ELSE None])]
         ELSE [ok |-> TRUE, value |-> resolve_google_accounts(fs, 1)]

resolve_google_auth(st, fs) ==
    LET auth == load_auth_map(st) IN
    IF ~auth.ok THEN auth
    ELSE LET entry == normalize_auth_entry(get_auth_entry(auth.value, GOOGLE_ALIASES)) IN
         IF IsSome(entry)
         THEN LET e == Unwrap(entry)
                  parts == IF IsSome(e.refresh) THEN split_once(Unwrap(e.refresh)) ELSE None
              IN  [ok |-> TRUE,
                   value |-> Some([access_token  |-> OrElse(e.access, e.token),
                                   refresh_token |-> IF IsSome(parts)
                                                     THEN Some(Unwrap(parts)[1])
                                                     ELSE e.refresh,
                                   expires       |-> e.expires,
                                   project_id    |-> IF IsSome(parts)
                                                     THEN Some(Unwrap(parts)[2])
                                                     ELSE None])]
         ELSE [ok |-> TRUE, value |-> resolve_google_accounts(fs, 1)]

\* The access token the token endpoint's response yields, if any.
refresh_google_access_token(response) ==
    IF response.k = "err" THEN None
    ELSE IF ~is_success(response.status) THEN None
    ELSE LET payload == IF IsSome(response.body) THEN Unwrap(response.body) ELSE JNull
         IN  AsStr(JGet(payload, "access_token"))

\* One endpoint's answer to fetchAvailableModels: the payload, or None to
\* go on to the next endpoint.
fetch_google_models_attempt(response) ==
    IF response.k = "err" THEN None
    ELSE IF is_success(response.status) THEN response.body
    ELSE None

\* DateTime::parse_from_rfc3339(text).timestamp_millis() for the texts the
\* responses of the model carry; any other text does not parse.
parse_from_rfc3339(text) ==
    IF text = S("1970-01-01T00:00:04Z") THEN Some(4000)
    ELSE IF text = S("1970-01-02T00:00:00+00:00") THEN Some(DayMs)
    ELSE None

parse_reset_time(value) ==
    LET num == AsI64(value)
        text == AsStr(value)
    IN  IF IsSome(num) /\ Unwrap(num) > 0 THEN num
        ELSE IF IsSome(text) THEN parse_from_rfc3339(Unwrap(text))
        ELSE None

google_model_usage(model_data, clock) ==
    LET remaining_fraction == parse_number(OGet(JGet(model_data, "quotaInfo"), "remainingFraction"))
        remaining_percent ==
            IF IsSome(remaining_fraction)
            THEN Some(F64(RoundF64(Unwrap(remaining_fraction) * 100)))
            ELSE None
        used_percent ==
            IF IsSome(remaining_percent)
            THEN Some(Max(F64(100) - Unwrap(remaining_percent), 0))
            ELSE None
        reset_at == parse_reset_time(OGet(JGet(model_data, "quotaInfo"), "resetTime"))
    IN  [windows |-> MapInsert(<<>>, "5h",
                        to_usage_window(used_percent, Some(GOOGLE_WINDOW_SECONDS), reset_at, clock)),
         models  |-> None]

google_usage(payload, clock) ==
    LET model_map == AsObject(JGet(payload, "models"))
        models == IF IsSome(model_map)
                  THEN [name \in DOMAIN Unwrap(model_map) |->
                            google_model_usage(Unwrap(model_map)[name], clock)]
                  ELSE <<>>
    IN  [windows |-> <<>>,
         models  |-> IF DOMAIN models = {} THEN None ELSE Some(models)]

---------------------------------------------------------------------------
(* Bounds and the values the model draws from *)

\* the clock starts at StartTime and advances TickMs at a time, MaxTicks times
StartTime == 1000
TickMs == 700
MaxTicks == 2

Tasks == {1, 2}
ProviderIds == {"openai", "google", "zai-coding-plan", "anthropic"}

\* the clock may also start one tick before midnight
LateStart == DayMs - TickMs
Starts == {StartTime, LateStart}

ExpiresSoon == StartTime + TickMs
FarFuture == StartTime + 1000000 * TickMs

\* what the store may hold under the OpenAI aliases
OpenAIFragments ==
    { <<>>,
      [openai |-> JStr(S("otok"))],
      [openai |-> JObj([access |-> JStr(S("oa")), token |-> JStr(S("ot"))])],
      [openai |-> JObj(<<>>)],
      [openai |-> JInt(7), codex |-> JStr(S("ctok"))],
      [codex |-> JObj([token |-> JStr(S("ct"))]), chatgpt |-> JStr(S("gpt"))],
      [chatgpt |-> JObj([access |-> JInt(3)])] }

\* what the store may hold under the z.ai aliases
ZaiFragments ==
    { <<>>,
      ("zai-coding-plan" :> JObj([key |-> JStr(S("zk")), token |-> JStr(S("zt"))])),
      [zai |-> JStr(S("ztok"))],
      ("z.ai" :> JObj([access |-> JStr(S("za"))])),
      ("zai-coding-plan" :> JNull) @@ [zai |-> JStr(S("ztok"))] }

\* what the store may hold under the Google aliases
GoogleFragments ==
    { <<>>,
      [google |-> JStr(S("gtok"))],
      [google |-> JInt(7)],
      [google |-> JObj(<<>>)],
      [google |-> JObj([access |-> JStr(S("ga")), expires |-> JInt(ExpiresSoon)])],
      [google |-> JObj([access |-> JStr(S("ga")), refresh |-> JStr(S("gr")),
                        expires |-> JInt(ExpiresSoon)])],
      [google |-> JObj([access |-> JStr(S("ga")), refresh |-> JStr(S("gr")),
                        expires |-> JFlt(F64(ExpiresSoon) - 400)])],
      [google |-> JObj([access |-> JStr(S("ga")), refresh |-> JStr(S("gr")),
                        expires |-> JInt(FarFuture)])],
      [google |-> JObj([refresh |-> JStr(<<"abc123", "proj-9">>)])],
      [google |-> JObj([refresh |-> JStr(<<"r", "p", "m">>)])],
      [antigravity |-> JObj([token |-> JStr(S("gt")), refresh |-> JStr(S("gr"))])],
      [google |-> JNull, antigravity |-> JStr(S("gtok"))] }

\* the fragments under which no primary Google credential resolves
NoPrimaryGoogle ==
    {g \in GoogleFragments :
        IsNone(normalize_auth_entry(get_auth_entry(g, GOOGLE_ALIASES)))}

AccountFull == JObj([refreshToken |-> JStr(S("ar")), projectId |-> JStr(S("ap")),
                     managedProjectId |-> JStr(S("mp"))])
AccountManaged == JObj([refreshToken |-> JStr(<<"br", "bp">>), managedProjectId |-> JStr(S("mp"))])
AccountBare == JObj([email |-> JStr(S("a@b"))])

FileJson(v) == [k |-> "text", json |-> v]
\* what an antigravity-accounts.json path may hold
AccountFiles ==
    { [k |-> "missing"], [k |-> "unreadable"], [k |-> "blank"], [k |-> "malformed"],
      FileJson(JObj(<<>>)),
      FileJson(JObj([accounts |-> JArr(<<>>), activeIndex |-> JInt(0)])),
      FileJson(JObj([accounts |-> JArr(<<AccountFull>>)])),
      FileJson(JObj([accounts |-> JArr(<<AccountBare, AccountManaged>>), activeIndex |-> JInt(1)])),
      FileJson(JObj([accounts |-> JArr(<<AccountBare, AccountFull>>), activeIndex |-> JInt(2)])),
      FileJson(JObj([accounts |-> JArr(<<AccountFull, AccountBare>>), activeIndex |-> JInt(-1)])) }

\* what the second path may hold where the first path varies
SecondFiles ==
    { [k |-> "missing"],
      FileJson(JObj([accounts |-> JArr(<<AccountBare>>)])),
      FileJson(JObj([accounts |-> JArr(<<AccountManaged>>), activeIndex |-> JInt(0)])) }
FilePairs == {<<f1, f2>> : f1 \in AccountFiles, f2 \in SecondFiles}

NoFiles == << [k |-> "missing"], [k |-> "missing"] >>

Unreadable == [k |-> "unreadable"]
StoreJson(v) == [k |-> "json", json |-> v]

\* the stores that fail structurally
BrokenStores == {Unreadable, StoreJson(JNull), StoreJson(JArr(<<>>))}

\* the responses the network may give, per URL
OpenAIPayloads ==
    { JObj(<<>>),
      JObj([rate_limit |-> JObj(
          [primary_window |-> JObj([used_percent |-> JInt(30),
                                    limit_window_seconds |-> JInt(18000),
                                    reset_at |-> JInt(4)]),
           secondary_window |-> JObj([used_percent |-> JFlt(120500),
                                      reset_at |-> JInt(2)])])]) }

ZaiPayloads ==
    { JObj(<<>>),
      JObj([data |-> JObj([limits |-> JArr(
          << JObj([type |-> JStr(S("TIME_LIMIT")), number |-> JInt(1), unit |-> JInt(3)]),
             JObj([type |-> JStr(S("TOKENS_LIMIT")), number |-> JInt(5), unit |-> JInt(3),
                   nextResetTime |-> JInt(4), percentage |-> JInt(40)]),
             JObj([type |-> JStr(S("TOKENS_LIMIT")), number |-> JInt(24), unit |-> JInt(3)]) >>)])]) }

\* z.ai bodies whose first TOKENS_LIMIT entry gives each kind of window:
\* hours, a day, days, a week, no seconds at all
ZaiTokensLimit(fields) ==
    JObj([data |-> JObj([limits |-> JArr(
        << JObj([type |-> JStr(S("TOKENS_LIMIT"))] @@ fields) >>)])])

ZaiLabelPayloads ==
    { ZaiTokensLimit([number |-> JInt(n), unit |-> JInt(3)]) : n \in {0, 1, 24, 48, 168} }
    \cup { ZaiTokensLimit([number |-> JInt(5), unit |-> JInt(5)]),
           ZaiTokensLimit([unit |-> JInt(3)]) }

GoogleModelsPayloads ==
    { JObj(<<>>),
      JObj([models |-> JObj(
          [gemini |-> JObj([quotaInfo |-> JObj(
               [remainingFraction |-> JFlt(256),
                resetTime |-> JStr(S("1970-01-01T00:00:04Z"))])]),
           claude |-> JObj([quotaInfo |-> JObj(
               [remainingFraction |-> JInt(1), resetTime |-> JInt(4)])]),
           opus |-> JObj([quotaInfo |-> JObj([remainingFraction |-> JFlt(-500)])]),
           flash |-> JObj(<<>>)])]) }

GoogleTokenPayloads ==
    { JObj(<<>>), JObj([access_token |-> JStr(S("fresh"))]) }

Failures ==
    { TransportError("error sending request"), Http(429, None), Http(200, None) }

Responses(url) ==
    IF url = OPENAI_URL
    THEN Failures \cup {Http(500, None)} \cup {Http(200, Some(p)) : p \in OpenAIPayloads}
    ELSE IF url = ZAI_URL
    THEN Failures \cup {Http(200, Some(p)) : p \in ZaiPayloads \cup ZaiLabelPayloads}
    ELSE IF url = GOOGLE_TOKEN_URL
    THEN Failures \cup {Http(200, Some(p)) : p \in GoogleTokenPayloads}
    ELSE Failures \cup {Http(200, Some(p)) : p \in GoogleModelsPayloads}

\* A live network answers each request as it pleases; a stub answers every
\* request to a URL with that URL's entry of its table.
Answers(url) == IF net.mode = "live" THEN Responses(url) ELSE {net.table[url]}

---------------------------------------------------------------------------
(* Calls *)

IdleCall ==
    [pc |-> "idle", op |-> "none", pid |-> "", stage |-> "", ep |-> 0,
     token |-> None, project |-> None, clock |-> None,
     reqs |-> <<>>, resps |-> <<>>, ret |-> [k |-> "none"]]
OffCall == [IdleCall EXCEPT !.pc = "off"]

\* the call issues a request and awaits its response
Send(c, stage, req) ==
    [c EXCEPT !.pc = "await", !.stage = stage, !.reqs = Append(@, req)]
\* the call has received a response
Received(c, r) == [c EXCEPT !.resps = Append(@, r)]
\* Ok(result)
Finish(c, result) ==
    [c EXCEPT !.pc = "done", !.stage = "", !.ret = [k |-> "ok", result |-> result]]
\* Err(error): the ? operator hands the error to the caller
Abort(c, err) ==
    [c EXCEPT !.pc = "done", !.stage = "", !.ret = [k |-> "err", err |-> err]]

UsageRequest(url, bearer) == [url |-> url, bearer |-> Some(bearer), body |-> None]
TokenRequest(refresh_token) ==
    [url |-> GOOGLE_TOKEN_URL, bearer |-> None,
     body |-> Some([grant_type |-> "refresh_token", refresh_token |-> refresh_token])]
ModelsRequest(ep, access_token, project_id) ==
    [url |-> GOOGLE_ENDPOINTS[ep], bearer |-> Some(access_token),
     body |-> Some([project |-> project_id])]

\* The caller invokes listConfiguredProviders.
InvokeList(t) ==
    /\ calls[t].pc = "idle"
    /\ calls' = [calls EXCEPT ![t] = [IdleCall EXCEPT !.pc = "run", !.op = "list"]]
    /\ UNCHANGED <<store, files, now, net>>

\* The caller invokes fetchQuota(pid).
InvokeFetch(t) ==
    /\ calls[t].pc = "idle"
    /\ \E pid \in ProviderIds :
         calls' = [calls EXCEPT ![t] =
                     [IdleCall EXCEPT !.pc = "run", !.op = "fetch", !.pid = pid]]
    /\ UNCHANGED <<store, files, now, net>>

\* The caller takes the outcome; the task is free for the next call.
Return(t) ==
    /\ calls[t].pc = "done"
    /\ calls' = [calls EXCEPT ![t] = IdleCall]
    /\ UNCHANGED <<store, files, now, net>>

Tick ==
    /\ \E start \in Starts, k \in 0..(MaxTicks - 1) : now = start + k * TickMs
    /\ now' = now + TickMs
    /\ UNCHANGED <<store, files, net, calls>>

---------------------------------------------------------------------------
(* list_configured_quota_providers *)

\* Vec::push: the member is added whether or not it is there already
VecPush(set, x) == Append(set, x)

\* HashSet::insert, the set kept as the sequence of its members
HashSetInsert(set, x) == IF x \in Range(set) THEN set ELSE Append(set, x)

\* into_iter().collect(): the members, in an order the caller cannot rely on
Collect(set) ==
    { [i \in 1..Len(set) |-> set[f[i]]] : f \in Permutations(1..Len(set)) }

configured_providers(auth, fs) ==
    LET openai_auth == normalize_auth_entry(get_auth_entry(auth, OPENAI_ALIASES))
        c1 == IF /\ IsSome(openai_auth)
                 /\ (IsSome(Unwrap(openai_auth).access) \/ IsSome(Unwrap(openai_auth).token))
              THEN HashSetInsert(<<>>, "openai") ELSE <<>>
        google_auth == normalize_auth_entry(get_auth_entry(auth, GOOGLE_ALIASES))
        c2 == IF /\ IsSome(google_auth)
                 /\ \/ IsSome(Unwrap(google_auth).access)
                    \/ IsSome(Unwrap(google_auth).token)
                    \/ IsSome(Unwrap(google_auth).refresh)
              THEN HashSetInsert(c1, "google") ELSE c1
        zai_auth == normalize_auth_entry(get_auth_entry(auth, ZAI_ALIASES))
        c3 == IF /\ IsSome(zai_auth)
                 /\ (IsSome(Unwrap(zai_auth).key) \/ IsSome(Unwrap(zai_auth).token))
              THEN HashSetInsert(c2, "zai-coding-plan") ELSE c2
    IN  IF has_antigravity_accounts(fs) THEN HashSetInsert(c3, "google") ELSE c3

\* list_configured_quota_providers asking the token endpoint whether a
\* stored refresh token is live
list_configured_quota_providers_probing(t) ==
    /\ calls[t].pc = "run"
    /\ calls[t].op = "list"
    /\ LET auth == load_auth_map(store) IN
       IF ~auth.ok
       THEN calls' = [calls EXCEPT ![t] = Abort(@, auth.err)]
       ELSE LET entry == normalize_auth_entry(get_auth_entry(auth.value, GOOGLE_ALIASES))
                probes == IF IsSome(entry) /\ IsSome(Unwrap(entry).refresh)
                          THEN <<TokenRequest(Unwrap(Unwrap(entry).refresh))>>
                          ELSE <<>>
            IN  \E ids \in Collect(configured_providers(auth.value, files)) :
                  calls' = [calls EXCEPT ![t] =
                              [@ EXCEPT !.pc = "done", !.reqs = probes,
                                        !.ret = [k |-> "list", ids |-> ids]]]
    /\ UNCHANGED <<store, files, now, net>>

list_configured_quota_providers(t) ==
    /\ calls[t].pc = "run"
    /\ calls[t].op = "list"
    /\ LET auth == load_auth_map(store) IN
       IF ~auth.ok
       THEN calls' = [calls EXCEPT ![t] = Abort(@, auth.err)]
       ELSE \E ids \in Collect(configured_providers(auth.value, files)) :
              calls' = [calls EXCEPT ![t] =
                          [@ EXCEPT !.pc = "done", !.ret = [k |-> "list", ids |-> ids]]]
    /\ UNCHANGED <<store, files, now, net>>

---------------------------------------------------------------------------
(* fetch_quota_for_provider *)

\* the match's last arm: any other provider id
fetch_unsupported_provider(t) ==
    /\ calls[t].pc = "run"
    /\ calls[t].op = "fetch"
    /\ calls[t].pid \notin {"openai", "google", "zai-coding-plan"}
    /\ calls' = [calls EXCEPT ![t] =
                   Finish(@, build_result(calls[t].pid, calls[t].pid, FALSE, FALSE, None,
                                          Some("Unsupported provider"), now))]
    /\ UNCHANGED <<store, files, now, net>>

\* entry.access.or(entry.token) / entry.key.or(entry.token)
openai_bearer(entry) ==
    IF IsSome(entry) THEN OrElse(Unwrap(entry).access, Unwrap(entry).token) ELSE None
zai_bearer(entry) ==
    IF IsSome(entry) THEN OrElse(Unwrap(entry).key, Unwrap(entry).token) ELSE None

\* fetch_openai_quota sending the request although no token resolved
fetch_openai_quota_always_sending(t) ==
    /\ calls[t].pc = "run"
    /\ calls[t].op = "fetch"
    /\ calls[t].pid = "openai"
    /\ LET auth == load_auth_map(store) IN
       IF ~auth.ok
       THEN calls' = [calls EXCEPT ![t] = Abort(@, auth.err)]
       ELSE LET access_token ==
                    openai_bearer(normalize_auth_entry(get_auth_entry(auth.value, OPENAI_ALIASES)))
            IN  calls' = [calls EXCEPT ![t] =
                    Send(@, "usage", UsageRequest(OPENAI_URL,
                             IF IsSome(access_token) THEN Unwrap(access_token) ELSE S("")))]
    /\ UNCHANGED <<store, files, now, net>>

\* fetch_openai_quota up to the request's send().await
fetch_openai_quota(t) ==
    /\ calls[t].pc = "run"
    /\ calls[t].op = "fetch"
    /\ calls[t].pid = "openai"
    /\ LET auth == load_auth_map(store) IN
       IF ~auth.ok
       THEN calls' = [calls EXCEPT ![t] = Abort(@, auth.err)]
       ELSE LET access_token ==
                    openai_bearer(normalize_auth_entry(get_auth_entry(auth.value, OPENAI_ALIASES)))
            IN  IF IsNone(access_token)
                THEN calls' = [calls EXCEPT ![t] =
                        Finish(@, build_result("openai", "OpenAI", FALSE, FALSE, None,
                                               Some("Not configured"), now))]
                ELSE calls' = [calls EXCEPT ![t] =
                        Send(@, "usage", UsageRequest(OPENAI_URL, Unwrap(access_token)))]
    /\ UNCHANGED <<store, files, now, net>>

\* openai_response sending the request again after a response that is no
\* success
openai_response_retrying(t) ==
    /\ calls[t].pc = "await"
    /\ calls[t].stage = "usage"
    /\ calls[t].pid = "openai"
    /\ \E r \in Answers(OPENAI_URL) :
         /\ calls' = [calls EXCEPT ![t] =
                IF r.k = "http" /\ is_success(r.status)
                THEN Finish(Received(@, r), openai_outcome(r, now))
                ELSE Send(Received(@, r), "usage", @.reqs[Len(@.reqs)])]
    /\ UNCHANGED <<store, files, now, net>>

\* fetch_openai_quota from the response on
openai_response(t) ==
    /\ calls[t].pc = "await"
    /\ calls[t].stage = "usage"
    /\ calls[t].pid = "openai"
    /\ \E r \in Answers(OPENAI_URL) :
         /\ calls' = [calls EXCEPT ![t] = Finish(Received(@, r), openai_outcome(r, now))]
    /\ UNCHANGED <<store, files, now, net>>

\* fetch_zai_quota up to the request's send().await
fetch_zai_quota(t) ==
    /\ calls[t].pc = "run"
    /\ calls[t].op = "fetch"
    /\ calls[t].pid = "zai-coding-plan"
    /\ LET auth == load_auth_map(store) IN
       IF ~auth.ok
       THEN calls' = [calls EXCEPT ![t] = Abort(@, auth.err)]
       ELSE LET api_key ==
                    zai_bearer(normalize_auth_entry(get_auth_entry(auth.value, ZAI_ALIASES)))
            IN  IF IsNone(api_key)
                THEN calls' = [calls EXCEPT ![t] =
                        Finish(@, build_result("zai-coding-plan", "z.ai", FALSE, FALSE, None,
                                               Some("Not configured"), now))]
                ELSE calls' = [calls EXCEPT ![t] =
                        Send(@, "usage", UsageRequest(ZAI_URL, Unwrap(api_key)))]
    /\ UNCHANGED <<store, files, now, net>>

\* zai_response reading its response from a connection shared with the
\* other tasks: the answer to another task's pending OpenAI request may
\* arrive in its place
zai_response_shared(t) ==
    /\ calls[t].pc = "await"
    /\ calls[t].stage = "usage"
    /\ calls[t].pid = "zai-coding-plan"
    /\ LET pending == \E u \in Tasks \ {t} :
                         /\ calls[u].pc = "await"
                         /\ calls[u].stage = "usage"
                         /\ calls[u].pid = "openai"
       IN  \E r \in Answers(IF pending THEN OPENAI_URL ELSE ZAI_URL) :
             calls' = [calls EXCEPT ![t] = Finish(Received(@, r), zai_outcome(r, now))]
    /\ UNCHANGED <<store, files, now, net>>

\* fetch_zai_quota from the response on
zai_response(t) ==
    /\ calls[t].pc = "await"
    /\ calls[t].stage = "usage"
    /\ calls[t].pid = "zai-coding-plan"
    /\ \E r \in Answers(ZAI_URL) :
         /\ calls' = [calls EXCEPT ![t] = Finish(Received(@, r), zai_outcome(r, now))]
    /\ UNCHANGED <<store, files, now, net>>

\* google_needs_refresh taking a token that expires at this instant for valid
google_needs_refresh_strict(auth, clock) ==
    \/ IsNone(auth.access_token)
    \/ IsSome(auth.expires) /\ Unwrap(auth.expires) < clock

\* access_token.is_none() || expires.is_some_and(|expires| expires <= now)
google_needs_refresh(auth, clock) ==
    \/ IsNone(auth.access_token)
    \/ IsSome(auth.expires) /\ Unwrap(auth.expires) <= clock

\* auth.project_id.unwrap_or_else(|| DEFAULT_PROJECT_ID)
google_project_id(project_id) ==
    IF IsSome(project_id) THEN Unwrap(project_id) ELSE DEFAULT_PROJECT_ID

\* the first endpoint is asked for the models with this access token
StartModels(c, access_token) ==
    Send([c EXCEPT !.token = Some(access_token), !.ep = 1], "models",
         ModelsRequest(1, access_token, google_project_id(c.project)))

\* fetch_google_quota up to its first request
fetch_google_quota(t) ==
    /\ calls[t].pc = "run"
    /\ calls[t].op = "fetch"
    /\ calls[t].pid = "google"
    /\ LET resolved == resolve_google_auth(store, files) IN
       IF ~resolved.ok
       THEN calls' = [calls EXCEPT ![t] = Abort(@, resolved.err)]
       ELSE IF IsNone(resolved.value)
       THEN calls' = [calls EXCEPT ![t] =
               Finish(@, build_result("google", "Google", FALSE, FALSE, None,
                                      Some("Not configured"), now))]
       ELSE LET auth == Unwrap(resolved.value)
                c == [calls[t] EXCEPT !.project = auth.project_id, !.clock = Some(now)]
            IN  IF google_needs_refresh(auth, now)
                THEN IF IsNone(auth.refresh_token)
                     THEN calls' = [calls EXCEPT ![t] =
                             Finish(c, build_result("google", "Google", FALSE, TRUE, None,
                                                    Some("Missing refresh token"), now))]
                     ELSE calls' = [calls EXCEPT ![t] =
                             Send(c, "token", TokenRequest(Unwrap(auth.refresh_token)))]
                ELSE calls' = [calls EXCEPT ![t] = StartModels(c, Unwrap(auth.access_token))]
    /\ UNCHANGED <<store, files, now, net>>

\* google_token_response handing a transport error of the token exchange
\* to the caller
google_token_response_propagating(t) ==
    /\ calls[t].pc = "await"
    /\ calls[t].stage = "token"
    /\ \E r \in Answers(GOOGLE_TOKEN_URL) :
         /\ LET access_token == refresh_google_access_token(r)
                c == Received(calls[t], r)
            IN  IF r.k = "err"
                THEN calls' = [calls EXCEPT ![t] = Abort(c, r.msg)]
                ELSE IF IsNone(access_token)
                THEN calls' = [calls EXCEPT ![t] =
                        Finish(c, build_result("google", "Google", FALSE, TRUE, None,
                                               Some("Failed to refresh OAuth token"), now))]
                ELSE calls' = [calls EXCEPT ![t] = StartModels(c, Unwrap(access_token))]
    /\ UNCHANGED <<store, files, now, net>>

\* google_token_response writing the fresh access token back to the store
google_token_response_persisting(t) ==
    /\ calls[t].pc = "await"
    /\ calls[t].stage = "token"
    /\ \E r \in Answers(GOOGLE_TOKEN_URL) :
         /\ LET access_token == refresh_google_access_token(r)
                c == Received(calls[t], r)
            IN  IF IsNone(access_token)
                THEN /\ calls' = [calls EXCEPT ![t] =
                            Finish(c, build_result("google", "Google", FALSE, TRUE, None,
                                                   Some("Failed to refresh OAuth token"), now))]
                     /\ store' = store
                ELSE /\ calls' = [calls EXCEPT ![t] = StartModels(c, Unwrap(access_token))]
                     /\ store' = StoreJson(JObj(
                            [google |-> JObj([access  |-> JStr(Unwrap(access_token)),
                                              expires |-> JInt(FarFuture)])]
                            @@ store.json.o))
    /\ UNCHANGED <<files, now, net>>

\* google_token_response going on with the stored access token when the
\* exchange yields none
google_token_response_falling_back(t) ==
    /\ calls[t].pc = "await"
    /\ calls[t].stage = "token"
    /\ \E r \in Answers(GOOGLE_TOKEN_URL) :
         /\ LET exchanged == refresh_google_access_token(r)
                stored == Unwrap(resolve_google_auth(store, files).value).access_token
                access_token == OrElse(exchanged, stored)
                c == Received(calls[t], r)
            IN  IF IsNone(access_token)
                THEN calls' = [calls EXCEPT ![t] =
                        Finish(c, build_result("google", "Google", FALSE, TRUE, None,
                                               Some("Failed to refresh OAuth token"), now))]
                ELSE calls' = [calls EXCEPT ![t] = StartModels(c, Unwrap(access_token))]
    /\ UNCHANGED <<store, files, now, net>>

\* refresh_google_access_token from the response on, and fetch_google_quota
\* up to the first models request
google_token_response(t) ==
    /\ calls[t].pc = "await"
    /\ calls[t].stage = "token"
    /\ \E r \in Answers(GOOGLE_TOKEN_URL) :
         /\ LET access_token == refresh_google_access_token(r)
                c == Received(calls[t], r)
            IN  IF IsNone(access_token)
                THEN calls' = [calls EXCEPT ![t] =
                        Finish(c, build_result("google", "Google", FALSE, TRUE, None,
                                               Some("Failed to refresh OAuth token"), now))]
                ELSE calls' = [calls EXCEPT ![t] = StartModels(c, Unwrap(access_token))]
    /\ UNCHANGED <<store, files, now, net>>

\* google_models_response giving up at the first endpoint that fails
google_models_response_no_failover(t) ==
    /\ calls[t].pc = "await"
    /\ calls[t].stage = "models"
    /\ LET ep == calls[t].ep IN
       \E r \in Answers(GOOGLE_ENDPOINTS[ep]) :
         /\ LET payload == fetch_google_models_attempt(r)
                c == Received(calls[t], r)
            IN  IF IsSome(payload)
                THEN calls' = [calls EXCEPT ![t] =
                        Finish(c, build_result("google", "Google", TRUE, TRUE,
                                               Some(google_usage(Unwrap(payload), now)),
                                               None, now))]
                ELSE calls' = [calls EXCEPT ![t] =
                        Finish(c, build_result("google", "Google", FALSE, TRUE, None,
                                               Some("Failed to fetch models"), now))]
    /\ UNCHANGED <<store, files, now, net>>

\* fetch_google_models from one endpoint's response on: the next endpoint,
\* or the rest of fetch_google_quota
google_models_response(t) ==
    /\ calls[t].pc = "await"
    /\ calls[t].stage = "models"
    /\ LET ep == calls[t].ep IN
       \E r \in Answers(GOOGLE_ENDPOINTS[ep]) :
         /\ LET payload == fetch_google_models_attempt(r)
                c == Received(calls[t], r)
            IN  IF IsSome(payload)
                THEN calls' = [calls EXCEPT ![t] =
                        Finish(c, build_result("google", "Google", TRUE, TRUE,
                                               Some(google_usage(Unwrap(payload), now)),
                                               None, now))]
                ELSE IF ep < Len(GOOGLE_ENDPOINTS)
                THEN calls' = [calls EXCEPT ![t] =
                        Send([c EXCEPT !.ep = ep + 1], "models",
                             ModelsRequest(ep + 1, Unwrap(c.token), google_project_id(c.project)))]
                ELSE calls' = [calls EXCEPT ![t] =
                        Finish(c, build_result("google", "Google", FALSE, TRUE, None,
                                               Some("Failed to fetch models"), now))]
    /\ UNCHANGED <<store, files, now, net>>

---------------------------------------------------------------------------
(* Specifications *)

Live == [mode |-> "live", table |-> <<>>]

Step(t) ==
    \/ InvokeList(t)
    \/ InvokeFetch(t)
    \/ list_configured_quota_providers(t)
    \/ fetch_unsupported_provider(t)
    \/ fetch_openai_quota(t)
    \/ openai_response(t)
    \/ fetch_zai_quota(t)
    \/ zai_response(t)
    \/ fetch_google_quota(t)
    \/ google_token_response(t)
    \/ google_models_response(t)
    \/ Return(t)

Next == Tick \/ \E t \in Tasks : Step(t)

StoreOf(o) == StoreJson(JObj(o))

\* One provider's credentials at a time, the multi-account files varying
\* where no primary Google credential resolves.
Init ==
    /\ now = StartTime
    /\ net = Live
    /\ calls = [t \in Tasks |-> IF t = 1 THEN IdleCall ELSE OffCall]
    /\ \/ /\ store \in BrokenStores
             \cup {StoreOf(o) : o \in OpenAIFragments \cup ZaiFragments}
             \cup {StoreOf(g) : g \in GoogleFragments \ NoPrimaryGoogle}
          /\ files = NoFiles
       \/ /\ store \in {StoreOf(g) : g \in NoPrimaryGoogle}
          /\ files \in FilePairs

Spec == Init /\ [][Next]_vars

\* listConfiguredProviders alone, over every combination of the three
\* providers' credentials and of the multi-account files.
NextList ==
    \E t \in Tasks :
        \/ InvokeList(t)
        \/ list_configured_quota_providers(t)
        \/ Return(t)

InitList ==
    /\ now = StartTime
    /\ net = Live
    /\ calls = [t \in Tasks |-> IF t = 1 THEN IdleCall ELSE OffCall]
    /\ store \in BrokenStores
          \cup {StoreOf(o @@ g @@ z) :
                  o \in OpenAIFragments, g \in GoogleFragments, z \in ZaiFragments}
    /\ files \in FilePairs

SpecList == InitList /\ [][NextList]_vars

\* Two tasks calling at the same time, against a stubbed network.
Urls == {OPENAI_URL, ZAI_URL, GOOGLE_TOKEN_URL} \cup Range(GOOGLE_ENDPOINTS)

\* every URL answers with success, with the i-th payload of its kind
SuccessTable(empty) ==
    [u \in Urls |->
        IF u = OPENAI_URL
        THEN Http(200, Some(CHOOSE p \in OpenAIPayloads : (p = JObj(<<>>)) = empty))
        ELSE IF u = ZAI_URL
        THEN Http(200, Some(CHOOSE p \in ZaiPayloads : (p = JObj(<<>>)) = empty))
        ELSE IF u = GOOGLE_TOKEN_URL
        THEN Http(200, Some(JObj([access_token |-> JStr(S("fresh"))])))
        ELSE Http(200, Some(CHOOSE p \in GoogleModelsPayloads : (p = JObj(<<>>)) = empty))]

\* the stubs answer every URL with success, or all but one, which is limited
StubTables ==
    {SuccessTable(e) : e \in BOOLEAN}
    \cup {[SuccessTable(FALSE) EXCEPT ![u] = Http(429, None)] : u \in Urls}

ConcStores ==
    { StoreOf([openai |-> JStr(S("otok"))]
              @@ ("zai-coding-plan" :> JObj([key |-> JStr(S("zk"))]))
              @@ g) :
        g \in { [google |-> JObj([refresh |-> JStr(<<"abc123", "proj-9">>)])],
                [google |-> JObj([access |-> JStr(S("ga")), expires |-> JInt(ExpiresSoon)])],
                [google |-> JObj([access |-> JStr(S("ga")), refresh |-> JStr(S("gr")),
                                  expires |-> JInt(ExpiresSoon)])] } }

InitConc ==
    /\ now \in Starts
    /\ net \in {[mode |-> "stub", table |-> tb] : tb \in StubTables}
    /\ calls = [t \in Tasks |-> IdleCall]
    /\ store \in ConcStores
    /\ files = NoFiles

SpecConc == InitConc /\ [][Next]_vars

\* One caller, a live network, and a store with no credential or with a
\* credential for every provider.
InitLive ==
    /\ now = StartTime
    /\ net = Live
    /\ calls = [t \in Tasks |-> IF t = 1 THEN IdleCall ELSE OffCall]
    /\ store \in {StoreOf(<<>>)} \cup ConcStores
    /\ files = NoFiles

\* the steps a call takes by itself, once invoked
CallStep(t) ==
    \/ list_configured_quota_providers(t)
    \/ fetch_unsupported_provider(t)
    \/ fetch_openai_quota(t)
    \/ openai_response(t)
    \/ fetch_zai_quota(t)
    \/ zai_response(t)
    \/ fetch_google_quota(t)
    \/ google_token_response(t)
    \/ google_models_response(t)

\* The runtime polls a call until it is done, and every request answers or
\* times out.
SpecLive == InitLive /\ [][Next]_vars /\ \A t \in Tasks : WF_vars(CallStep(t))

---------------------------------------------------------------------------
(* Properties *)

SupportedIds == {"openai", "google", "zai-coding-plan"}

\* the credential store reads as a JSON object
StoreIsObject == store.k = "json" /\ store.json.t = "obj"

FetchDone(t) == calls[t].pc = "done" /\ calls[t].op = "fetch"
ListDone(t) == calls[t].pc = "done" /\ calls[t].op = "list"
\* the call returned a ProviderResult
Returned(t) == FetchDone(t) /\ calls[t].ret.k = "ok"
\* the call returned an error to its caller
Aborted(t) == calls[t].pc = "done" /\ calls[t].ret.k = "err"
ResultOf(t) == calls[t].ret.result

\* a response that is no success: transport error, non-success status, or
\* a body that does not parse
Failed(r) == r.k = "err" \/ r.status < 200 \/ r.status > 299 \/ r.body = None
LastOf(s) == s[Len(s)]

\* C1: every ProviderResult fetchQuota returns has no error when ok is true,
\* and has ok false when configured is false.
C1_ResultInvariant ==
    \A t \in Tasks :
        Returned(t) =>
            /\ ResultOf(t).ok => ResultOf(t).error = None
            /\ ~ResultOf(t).configured => ~ResultOf(t).ok

\* a fetch returned ok = true after a network request
C1_Witness ==
    \E t \in Tasks :
        Returned(t) /\ ResultOf(t).ok /\ ResultOf(t).configured /\ calls[t].reqs # <<>>

\* C2 as stated: fetchQuota never returns an error to its caller, whatever
\* the state of the credential store.
C2_NeverAborts ==
    \A t \in Tasks : FetchDone(t) => calls[t].ret.k = "ok"

\* C2 as amended: fetchQuota returns an error to its caller exactly when the
\* provider id is a supported one and the credential store is unreadable or
\* is not an object; in every other case it returns a ProviderResult.
C2_AbortsOnlyOnBrokenStore ==
    \A t \in Tasks :
        FetchDone(t) =>
            (calls[t].ret.k = "err" <=> (calls[t].pid \in SupportedIds /\ ~StoreIsObject))

\* a fetch for a supported provider has ended in an error, the store being
\* readable but not an object
C2_Witness ==
    \E t \in Tasks :
        /\ FetchDone(t) /\ Aborted(t)
        /\ calls[t].pid = "openai"
        /\ store.k = "json" /\ store.json.t # "obj"

\* C3: a call of either command returns an error only when the credential
\* store is unreadable or not an object; a fetch that issues no request, whose
\* token exchange fails, or whose last response is a transport error, a
\* non-success status or an unparseable body returns a result with ok false
\* and an error message.
C3_OnlyStructuralFailuresAbort ==
    \A t \in Tasks :
        /\ Aborted(t) => ~StoreIsObject
        /\ (FetchDone(t) /\ StoreIsObject) =>
             /\ Returned(t)
             /\ ( \/ calls[t].reqs = <<>>
                  \/ LastOf(calls[t].reqs).url = GOOGLE_TOKEN_URL
                  \/ Failed(LastOf(calls[t].resps)) )
                => (~ResultOf(t).ok /\ ResultOf(t).error # None)

\* a Google fetch whose token exchange met a transport error has returned
\* a result
C3_Witness ==
    \E t \in Tasks :
        /\ Returned(t)
        /\ calls[t].reqs # <<>>
        /\ LastOf(calls[t].reqs).url = GOOGLE_TOKEN_URL
        /\ LastOf(calls[t].resps).k = "err"
        /\ ResultOf(t).error = Some("Failed to refresh OAuth token")

\* no credential resolves for the provider: no access or plain token under
\* the OpenAI aliases, no key or plain token under the z.ai aliases, no
\* record under the Google aliases and no multi-account account with a
\* refresh token
NoCredential(pid) ==
    LET auth == store.json.o IN
    CASE pid = "openai" ->
           IsNone(openai_bearer(normalize_auth_entry(get_auth_entry(auth, OPENAI_ALIASES))))
      [] pid = "zai-coding-plan" ->
           IsNone(zai_bearer(normalize_auth_entry(get_auth_entry(auth, ZAI_ALIASES))))
      [] pid = "google" ->
           /\ IsNone(normalize_auth_entry(get_auth_entry(auth, GOOGLE_ALIASES)))
           /\ IsNone(resolve_google_accounts(files, 1))

\* C4: a fetchQuota call for an unsupported provider id issues no request
\* and returns ok=false, configured=false, error "Unsupported provider" with
\* the given id as provider id; a call for a supported provider for which no
\* credential resolves from a readable store issues no request and returns
\* ok=false, configured=false, error "Not configured".
C4_EarlyReturns ==
    \A t \in Tasks :
        /\ (calls[t].op = "fetch" /\ calls[t].pid \notin SupportedIds)
             => /\ calls[t].reqs = <<>>
                /\ calls[t].pc \in {"run", "done"}
                /\ calls[t].pc = "done" =>
                     /\ Returned(t)
                     /\ ~ResultOf(t).ok /\ ~ResultOf(t).configured
                     /\ ResultOf(t).error = Some("Unsupported provider")
                     /\ ResultOf(t).provider_id = calls[t].pid
        /\ ( /\ calls[t].op = "fetch" /\ calls[t].pid \in SupportedIds
             /\ StoreIsObject /\ NoCredential(calls[t].pid) )
             => /\ calls[t].reqs = <<>>
                /\ calls[t].pc \in {"run", "done"}
                /\ calls[t].pc = "done" =>
                     /\ Returned(t)
                     /\ ~ResultOf(t).ok /\ ~ResultOf(t).configured
                     /\ ResultOf(t).error = Some("Not configured")
                     /\ ResultOf(t).provider_id = calls[t].pid

\* a fetch for OpenAI has returned "Not configured" without a request, the
\* store holding an OpenAI record with no token in it
C4_Witness ==
    \E t \in Tasks :
        /\ Returned(t) /\ calls[t].pid = "openai"
        /\ StoreIsObject /\ "openai" \in DOMAIN store.json.o
        /\ calls[t].reqs = <<>>
        /\ ResultOf(t).error = Some("Not configured")

\* C5: an OpenAI or z.ai fetch that resolved a bearer issues one usage
\* request and returns configured=true, classified in this order: a transport
\* error gives ok=false with the transport message; else a non-success status
\* s gives ok=false with "API error: s"; else an unparseable body gives
\* ok=false with the parse message; else ok=true with no error and a usage
\* payload, which has zero windows when the expected fields are absent.
C5_Classification ==
    \A t \in Tasks :
        (Returned(t) /\ calls[t].pid \in {"openai", "zai-coding-plan"} /\ calls[t].reqs # <<>>)
        => LET r == calls[t].resps[1]
               res == ResultOf(t)
           IN  /\ Len(calls[t].reqs) = 1 /\ Len(calls[t].resps) = 1
               /\ IsSome(calls[t].reqs[1].bearer)
               /\ res.configured
               /\ IF r.k = "err"
                  THEN ~res.ok /\ res.error = Some(r.msg) /\ res.usage = None
                  ELSE IF r.status < 200 \/ r.status > 299
                  THEN /\ ~res.ok /\ res.usage = None
                       /\ res.error = Some("API error: " \o ToString(r.status))
                       /\ r.status = 429 => res.error = Some("API error: 429")
                  ELSE IF r.body = None
                  THEN ~res.ok /\ res.error = Some(ParseMessage) /\ res.usage = None
                  ELSE /\ res.ok /\ res.error = None /\ IsSome(res.usage)
                       /\ Unwrap(r.body) = JObj(<<>>)
                            => DOMAIN Unwrap(res.usage).windows = {}

\* an OpenAI fetch whose request met status 429 with a body that is no JSON
\* has returned "API error: 429"
C5_Witness ==
    \E t \in Tasks :
        /\ Returned(t) /\ calls[t].pid = "openai"
        /\ calls[t].resps = <<Http(429, None)>>
        /\ ResultOf(t).error = Some("API error: 429")

\* C6: a listConfiguredProviders call issues no request and receives no
\* response, whatever the store and the multi-account files hold, and it
\* returns an error only when the store is unreadable or is not an object.
C6_ListNoNetwork ==
    \A t \in Tasks :
        calls[t].op = "list" =>
            /\ calls[t].reqs = <<>> /\ calls[t].resps = <<>>
            /\ calls[t].pc \in {"run", "done"}
            /\ calls[t].pc = "done" =>
                 (calls[t].ret.k = "err" <=> ~StoreIsObject)

\* a list call has returned google with a refresh token in the store and an
\* account with a refresh token in a multi-account file
C6_Witness ==
    \E t \in Tasks :
        /\ ListDone(t) /\ calls[t].ret.k = "list"
        /\ "google" \in Range(calls[t].ret.ids)
        /\ "google" \in DOMAIN store.json.o
        /\ JGet(store.json.o["google"], "refresh") # None
        /\ IsSome(resolve_google_accounts(files, 1))

\* the record under the first alias of the list that is present in the store
FirstPresent(auth, aliases) ==
    LET present == {i \in 1..Len(aliases) : aliases[i] \in DOMAIN auth} IN
    IF present = {} THEN None
    ELSE Some(auth[aliases[CHOOSE i \in present : \A j \in present : i <= j]])

\* the record is a structured object with a string under the field
HasField(rec, field) ==
    /\ IsSome(rec) /\ Unwrap(rec).t = "obj"
    /\ field \in DOMAIN Unwrap(rec).o
    /\ Unwrap(rec).o[field].t = "str"

\* the record is a bare string, or has a token field
HasPlainToken(rec) ==
    \/ IsSome(rec) /\ Unwrap(rec).t = "str"
    \/ HasField(rec, "token")

\* some multi-account file has a non-empty accounts list
SomeAccountsListed ==
    \E i \in 1..Len(files) :
        /\ files[i].k = "text" /\ files[i].json.t = "obj"
        /\ "accounts" \in DOMAIN files[i].json.o
        /\ files[i].json.o["accounts"].t = "arr"
        /\ files[i].json.o["accounts"].a # <<>>

\* the ids listConfiguredProviders is to return for the store and the files
ExpectedIds ==
    LET auth == store.json.o
        o == FirstPresent(auth, <<"openai", "codex", "chatgpt">>)
        g == FirstPresent(auth, <<"google", "antigravity">>)
        z == FirstPresent(auth, <<"zai-coding-plan", "zai", "z.ai">>)
    IN  {id \in {"openai"} : HasField(o, "access") \/ HasPlainToken(o)}
        \cup {id \in {"zai-coding-plan"} : HasField(z, "key") \/ HasPlainToken(z)}
        \cup {id \in {"google"} :
                \/ HasField(g, "access") \/ HasPlainToken(g) \/ HasField(g, "refresh")
                \/ SomeAccountsListed}

\* C7: the ids a listConfiguredProviders call returns are pairwise distinct
\* and are exactly: "openai" iff the record under the first present OpenAI
\* alias has an access or plain token; "zai-coding-plan" iff the record under
\* the first present z.ai alias has a key or plain token; "google" iff the
\* record under the first present Google alias has an access, plain or
\* refresh token or some multi-account file has a non-empty accounts list.
C7_ListExactSet ==
    \A t \in Tasks :
        (ListDone(t) /\ calls[t].ret.k = "list") =>
            LET ids == calls[t].ret.ids IN
            /\ \A i, j \in 1..Len(ids) : ids[i] = ids[j] => i = j
            /\ Range(ids) = ExpectedIds

\* a list call has returned google once, the store holding a Google access
\* token and a multi-account file a non-empty accounts list, and has left
\* out openai, whose first alias holds no record while a later alias holds
\* a token
C7_Witness ==
    \E t \in Tasks :
        /\ ListDone(t) /\ calls[t].ret.k = "list"
        /\ HasField(FirstPresent(store.json.o, GOOGLE_ALIASES), "access")
        /\ SomeAccountsListed
        /\ Cardinality({i \in 1..Len(calls[t].ret.ids) : calls[t].ret.ids[i] = "google"}) = 1
        /\ "openai" \in DOMAIN store.json.o /\ "codex" \in DOMAIN store.json.o
        /\ store.json.o["codex"].t = "str"
        /\ "openai" \notin Range(calls[t].ret.ids)

\* every response the call received is a success with a body that parses
AnsweredSuccessfully(t) ==
    \A i \in 1..Len(calls[t].resps) : ~Failed(calls[t].resps[i])

\* two calls of fetchQuota for the same provider have returned results, the
\* network having answered both successfully
TwoCalls(t1, t2) ==
    /\ t1 # t2
    /\ Returned(t1) /\ Returned(t2)
    /\ calls[t1].pid = calls[t2].pid
    /\ AnsweredSuccessfully(t1) /\ AnsweredSuccessfully(t2)

\* C8 as stated: two fetchQuota calls for the same provider, the store
\* unchanged and the network answering both successfully with the same
\* responses, return results equal in every field except fetched_at.
C8_EqualExceptFetchedAt ==
    \A t1, t2 \in Tasks :
        TwoCalls(t1, t2) =>
            [ResultOf(t1) EXCEPT !.fetched_at = 0] = [ResultOf(t2) EXCEPT !.fetched_at = 0]

\* a window without the fields computed against the clock of the call
TimelessWindow(w) ==
    [w EXCEPT !.reset_after_seconds = None,
              !.reset_at_formatted = None,
              !.reset_after_formatted = None]

TimelessWindows(ws) == [label \in DOMAIN ws |-> TimelessWindow(ws[label])]

TimelessUsage(u) ==
    [windows |-> TimelessWindows(u.windows),
     models  |-> IF IsNone(u.models) THEN None
                 ELSE Some([name \in DOMAIN Unwrap(u.models) |->
                              [windows |-> TimelessWindows(Unwrap(u.models)[name].windows),
                               models  |-> Unwrap(u.models)[name].models]])]

\* a result without fetched_at and without the windows' fields computed
\* against the clock of the call
Timeless(result) ==
    [result EXCEPT !.fetched_at = 0,
                   !.usage = IF IsNone(@) THEN None ELSE Some(TimelessUsage(Unwrap(@)))]

\* the call found a stored Google access token that has no refresh token
\* with it, and found it expired
ExpiredWithoutRefresh(t) ==
    /\ calls[t].pid = "google"
    /\ LET resolved == resolve_google_auth(store, files) IN
       /\ resolved.ok /\ IsSome(resolved.value)
       /\ IsSome(Unwrap(resolved.value).access_token)
       /\ IsNone(Unwrap(resolved.value).refresh_token)
       /\ IsSome(calls[t].clock)
       /\ google_needs_refresh(Unwrap(resolved.value), Unwrap(calls[t].clock))

\* C8 as amended: the two results are equal in every field except fetched_at
\* and each window's reset_after_seconds, reset_at_formatted and
\* reset_after_formatted, unless a stored Google access token that has no
\* refresh token with it expired between the two calls.
C8_EqualExceptClockFields ==
    \A t1, t2 \in Tasks :
        (TwoCalls(t1, t2) /\ (ExpiredWithoutRefresh(t1) <=> ExpiredWithoutRefresh(t2)))
            => Timeless(ResultOf(t1)) = Timeless(ResultOf(t2))

\* two OpenAI fetches have returned ok at different times, with the same
\* reset_at and different reset_after_seconds in the "5h" window
C8_Witness ==
    \E t1, t2 \in Tasks :
        /\ TwoCalls(t1, t2) /\ calls[t1].pid = "openai"
        /\ ResultOf(t1).ok /\ ResultOf(t2).ok
        /\ ResultOf(t1).fetched_at # ResultOf(t2).fetched_at
        /\ "5h" \in DOMAIN Unwrap(ResultOf(t1).usage).windows
        /\ "5h" \in DOMAIN Unwrap(ResultOf(t2).usage).windows
        /\ Unwrap(ResultOf(t1).usage).windows["5h"].reset_at
             = Unwrap(ResultOf(t2).usage).windows["5h"].reset_at
        /\ Unwrap(ResultOf(t1).usage).windows["5h"].reset_after_seconds
             # Unwrap(ResultOf(t2).usage).windows["5h"].reset_after_seconds

\* the Google call has resolved a credential and found its access token
\* absent or expired
FoundStale(t) ==
    /\ calls[t].op = "fetch" /\ calls[t].pid = "google"
    /\ IsSome(calls[t].clock)
    /\ LET resolved == resolve_google_auth(store, files) IN
       /\ resolved.ok /\ IsSome(resolved.value)
       /\ google_needs_refresh(Unwrap(resolved.value), Unwrap(calls[t].clock))

StoredGoogle == Unwrap(resolve_google_auth(store, files).value)

\* the call's first request is the token exchange
ExchangesFirst(t) ==
    /\ calls[t].reqs # <<>>
    /\ calls[t].reqs[1].url = GOOGLE_TOKEN_URL

\* C9 as stated: no step changes the credential store or the multi-account
\* files, and every Google call whose stored access token is absent or
\* expired performs its own token exchange.
C9_StoreUntouchedEveryStaleCallExchanges ==
    /\ [][store' = store /\ files' = files]_vars
    /\ [](\A t \in Tasks : FoundStale(t) => ExchangesFirst(t))

\* the bearer of every endpoint request of the call is the access token of
\* the call's own exchange if it made one, and the stored one otherwise
OwnBearer(t) ==
    LET c == calls[t] IN
    \A i \in 1..Len(c.reqs) :
        c.reqs[i].url # GOOGLE_TOKEN_URL =>
            c.reqs[i].bearer =
                IF ExchangesFirst(t)
                THEN AsStr(JGet(Unwrap(c.resps[1].body), "access_token"))
                ELSE StoredGoogle.access_token

\* C9 as amended: no step changes the credential store or the multi-account
\* files; every Google call whose stored access token is absent or expired
\* exchanges the stored refresh token first, or, having no refresh token,
\* returns "Missing refresh token" without a request; and the endpoint
\* requests of a call carry the access token of the call's own exchange, or
\* the stored one if the call made no exchange.
C9_StoreUntouchedOwnExchange ==
    /\ [][store' = store /\ files' = files]_vars
    /\ [](\A t \in Tasks :
            /\ (FoundStale(t) /\ IsSome(StoredGoogle.refresh_token))
                 => /\ ExchangesFirst(t)
                    /\ calls[t].reqs[1] = TokenRequest(Unwrap(StoredGoogle.refresh_token))
            /\ (FoundStale(t) /\ IsNone(StoredGoogle.refresh_token))
                 => /\ calls[t].reqs = <<>> /\ Returned(t)
                    /\ ResultOf(t).error = Some("Missing refresh token")
            /\ (calls[t].op = "fetch" /\ calls[t].pid = "google" /\ IsSome(calls[t].clock))
                 => OwnBearer(t))

\* two Google calls have both found the stored access token expired, the
\* second after the first had returned its result, and each has exchanged
\* the refresh token and asked the endpoints with the token it obtained
C9_Witness ==
    \E t1, t2 \in Tasks :
        /\ t1 # t2
        /\ Returned(t1) /\ Returned(t2)
        /\ FoundStale(t1) /\ FoundStale(t2)
        /\ IsSome(StoredGoogle.access_token)
        /\ ResultOf(t1).fetched_at < Unwrap(calls[t2].clock)
        /\ ExchangesFirst(t1) /\ ExchangesFirst(t2)
        /\ Len(calls[t2].reqs) >= 2
        /\ calls[t2].reqs[2].bearer = Some(S("fresh"))
        /\ ResultOf(t1).ok /\ ResultOf(t2).ok

\* the number of requests of the call to the URL
RequestsTo(t, url) ==
    Cardinality({i \in 1..Len(calls[t].reqs) : calls[t].reqs[i].url = url})

InProgress(t) == calls[t].pc \in {"run", "await"}

\* the requests of a call: one at most for OpenAI and z.ai; for Google one
\* token exchange at most and one request at most to each endpoint; each
\* request has its response before the next is sent
BoundedRequests(t) ==
    LET c == calls[t] IN
    /\ c.pid \in {"openai", "zai-coding-plan"} => Len(c.reqs) <= 1
    /\ c.pid \notin SupportedIds => Len(c.reqs) = 0
    /\ RequestsTo(t, GOOGLE_TOKEN_URL) <= 1
    /\ \A ep \in 1..Len(GOOGLE_ENDPOINTS) : RequestsTo(t, GOOGLE_ENDPOINTS[ep]) <= 1
    /\ Len(c.reqs) <= 1 + Len(GOOGLE_ENDPOINTS)
    /\ \A i, j \in 1..Len(c.reqs) : c.reqs[i] = c.reqs[j] => i = j
    /\ Len(c.resps) = IF c.pc = "await" THEN Len(c.reqs) - 1 ELSE Len(c.reqs)

\* C10: a fetchQuota call issues at most one request for OpenAI and z.ai and,
\* for Google, at most one token exchange and at most one request to each of
\* the 3 endpoints; it repeats no request; each of its steps returns the
\* result or sends the next request; and every call that has started returns.
C10_NoRetryAndTermination ==
    /\ [](\A t \in Tasks : calls[t].op = "fetch" => BoundedRequests(t))
    /\ [][\A t \in Tasks :
            (InProgress(t) /\ calls[t].op = "fetch" /\ calls'[t] # calls[t])
                => \/ calls'[t].pc = "done" /\ calls'[t].reqs = calls[t].reqs
                   \/ /\ calls'[t].pc = "await"
                      /\ Len(calls'[t].reqs) = Len(calls[t].reqs) + 1]_vars
    /\ \A t \in Tasks : (InProgress(t) /\ calls[t].op = "fetch") ~> FetchDone(t)

\* a Google call has returned "Failed to fetch models" after a token
\* exchange and one failed request to each of the 3 endpoints
C10_Witness ==
    \E t \in Tasks :
        /\ Returned(t) /\ calls[t].pid = "google"
        /\ Len(calls[t].reqs) = 4
        /\ calls[t].reqs[1].url = GOOGLE_TOKEN_URL
        /\ \A i \in 2..4 : Failed(calls[t].resps[i])
        /\ ResultOf(t).error = Some("Failed to fetch models")

\* What a Google call run alone returns from endpoint ep on, the stub
\* answering: the first endpoint that succeeds gives the result.
RECURSIVE AloneGoogleModels(_, _)
AloneGoogleModels(ep, finish) ==
    LET payload == fetch_google_models_attempt(net.table[GOOGLE_ENDPOINTS[ep]]) IN
    IF IsSome(payload)
    THEN build_result("google", "Google", TRUE, TRUE,
                      Some(google_usage(Unwrap(payload), finish)), None, finish)
    ELSE IF ep < Len(GOOGLE_ENDPOINTS) THEN AloneGoogleModels(ep + 1, finish)
    ELSE build_result("google", "Google", FALSE, TRUE, None,
                      Some("Failed to fetch models"), finish)

\* What a fetchQuota call run alone returns against the store, the files and
\* the stub's answers, reading the clock as start when it begins and as
\* finish when it builds its result.
Alone(pid, start, finish) ==
    LET auth == store.json.o IN
    CASE pid = "openai" ->
           IF IsNone(openai_bearer(normalize_auth_entry(get_auth_entry(auth, OPENAI_ALIASES))))
           THEN build_result("openai", "OpenAI", FALSE, FALSE, None, Some("Not configured"), finish)
           ELSE openai_outcome(net.table[OPENAI_URL], finish)
      [] pid = "zai-coding-plan" ->
           IF IsNone(zai_bearer(normalize_auth_entry(get_auth_entry(auth, ZAI_ALIASES))))
           THEN build_result("zai-coding-plan", "z.ai", FALSE, FALSE, None,
                             Some("Not configured"), finish)
           ELSE zai_outcome(net.table[ZAI_URL], finish)
      [] pid = "google" ->
           LET resolved == resolve_google_auth(store, files).value IN
           IF IsNone(resolved)
           THEN build_result("google", "Google", FALSE, FALSE, None, Some("Not configured"), finish)
           ELSE IF ~google_needs_refresh(Unwrap(resolved), start)
           THEN AloneGoogleModels(1, finish)
           ELSE IF IsNone(Unwrap(resolved).refresh_token)
           THEN build_result("google", "Google", FALSE, TRUE, None,
                             Some("Missing refresh token"), finish)
           ELSE IF IsNone(refresh_google_access_token(net.table[GOOGLE_TOKEN_URL]))
           THEN build_result("google", "Google", FALSE, TRUE, None,
                             Some("Failed to refresh OAuth token"), finish)
           ELSE AloneGoogleModels(1, finish)
      [] OTHER ->
           build_result(pid, pid, FALSE, FALSE, None, Some("Unsupported provider"), finish)

\* the clock the call read when it began: a Google call that resolved a
\* credential recorded it; any other call's result does not depend on it
StartOf(t) ==
    IF IsSome(calls[t].clock) THEN Unwrap(calls[t].clock) ELSE ResultOf(t).fetched_at

\* C11: whatever the interleaving of two tasks' calls, a fetchQuota call
\* returns the result it would return run alone against the same store,
\* files and network answers, a listConfiguredProviders call returns the ids
\* it would return run alone, and a step changes the call of one task only
\* and neither the store, the files nor the network.
C11_ConcurrentCallsAsAlone ==
    /\ [](\A t \in Tasks :
            /\ FetchDone(t) =>
                 /\ Returned(t)
                 /\ ResultOf(t) = Alone(calls[t].pid, StartOf(t), ResultOf(t).fetched_at)
            /\ ListDone(t) =>
                 /\ calls[t].ret.k = "list"
                 /\ Range(calls[t].ret.ids) = Range(configured_providers(store.json.o, files)))
    /\ [][/\ \A t, u \in Tasks :
               (calls'[t] # calls[t] /\ calls'[u] # calls[u]) => t = u
          /\ store' = store /\ files' = files /\ net' = net]_vars

\* a z.ai call has returned ok with its window while the other task's Google
\* call, begun before and finished after it, has returned ok after a token
\* exchange
C11_Witness ==
    \E t, u \in Tasks :
        /\ t # u
        /\ Returned(t) /\ calls[t].pid = "zai-coding-plan" /\ ResultOf(t).ok
        /\ DOMAIN Unwrap(ResultOf(t).usage).windows # {}
        /\ Returned(u) /\ calls[u].pid = "google" /\ ResultOf(u).ok
        /\ Len(calls[u].reqs) >= 2 /\ calls[u].reqs[1].url = GOOGLE_TOKEN_URL
        /\ Unwrap(calls[u].clock) < ResultOf(t).fetched_at
        /\ ResultOf(t).fetched_at < ResultOf(u).fetched_at

\* the Google call has resolved a credential and has left its first step
GoogleUnderWay(t) ==
    /\ calls[t].op = "fetch" /\ calls[t].pid = "google"
    /\ calls[t].pc \in {"await", "done"}
    /\ IsSome(calls[t].clock)

\* C12: a Google call issues the token exchange if and only if a refresh
\* token is available and the access token is absent or its expiry is at or
\* before the clock of the call; with an access token that has no expiry or
\* an expiry after the clock, the call makes no exchange and sends the stored
\* access token to the first endpoint.
C12_ExchangeIffStaleWithRefresh ==
    \A t \in Tasks :
        /\ (calls[t].op = "fetch" /\ calls[t].pid = "google" /\ IsNone(calls[t].clock))
             => RequestsTo(t, GOOGLE_TOKEN_URL) = 0
        /\ GoogleUnderWay(t) =>
             LET g == StoredGoogle
                 clock == Unwrap(calls[t].clock)
                 fresh == /\ IsSome(g.access_token)
                          /\ (IsNone(g.expires) \/ Unwrap(g.expires) > clock)
             IN  /\ RequestsTo(t, GOOGLE_TOKEN_URL) >= 1
                      <=> (IsSome(g.refresh_token) /\ ~fresh)
                 /\ fresh => /\ calls[t].reqs # <<>>
                             /\ calls[t].reqs[1].url = GOOGLE_ENDPOINTS[1]
                             /\ calls[t].reqs[1].bearer = g.access_token

\* a Google call that read the clock at the very instant its stored access
\* token expires has exchanged the refresh token
C12_Witness ==
    \E t \in Tasks :
        /\ GoogleUnderWay(t)
        /\ IsSome(StoredGoogle.access_token) /\ IsSome(StoredGoogle.expires)
        /\ Unwrap(StoredGoogle.expires) = Unwrap(calls[t].clock)
        /\ ExchangesFirst(t)

\* the stored Google access token is absent, or its expiry is at or before
\* the clock the call read
RefreshRequired(t) ==
    /\ calls[t].op = "fetch" /\ calls[t].pid = "google" /\ IsSome(calls[t].clock)
    /\ \/ IsNone(StoredGoogle.access_token)
       \/ /\ IsSome(StoredGoogle.expires)
          /\ Unwrap(StoredGoogle.expires) <= Unwrap(calls[t].clock)

\* the response of the token endpoint carries an access token
GivesToken(r) ==
    /\ r.k = "http" /\ r.status >= 200 /\ r.status <= 299
    /\ r.body # None /\ Unwrap(r.body).t = "obj"
    /\ "access_token" \in DOMAIN Unwrap(r.body).o
    /\ Unwrap(r.body).o["access_token"].t = "str"

\* C13: a Google call that requires a refresh returns "Missing refresh token"
\* with ok=false, configured=true and no request when no refresh token is
\* available; returns "Failed to refresh OAuth token" with ok=false,
\* configured=true and no endpoint request when the exchange meets a
\* transport error, a non-success status or a response without an access
\* token; and otherwise sends every endpoint request with the access token
\* of the exchange, never with the stored one.
C13_RefreshFailures ==
    \A t \in Tasks :
        RefreshRequired(t) =>
            LET c == calls[t] IN
            /\ IsNone(StoredGoogle.refresh_token) =>
                 /\ c.reqs = <<>> /\ Returned(t)
                 /\ ~ResultOf(t).ok /\ ResultOf(t).configured
                 /\ ResultOf(t).error = Some("Missing refresh token")
            /\ (IsSome(StoredGoogle.refresh_token) /\ c.resps # <<>> /\ ~GivesToken(c.resps[1])) =>
                 /\ Len(c.reqs) = 1 /\ c.reqs[1].url = GOOGLE_TOKEN_URL
                 /\ Returned(t)
                 /\ ~ResultOf(t).ok /\ ResultOf(t).configured
                 /\ ResultOf(t).error = Some("Failed to refresh OAuth token")
            /\ \A i \in 1..Len(c.reqs) :
                 c.reqs[i].url # GOOGLE_TOKEN_URL =>
                     /\ i > 1 /\ c.reqs[1].url = GOOGLE_TOKEN_URL
                     /\ GivesToken(c.resps[1])
                     /\ c.reqs[i].bearer = Some(Unwrap(c.resps[1].body).o["access_token"].s)
                     /\ c.reqs[i].bearer # StoredGoogle.access_token

\* a Google call whose stored access token had expired has returned "Failed
\* to refresh OAuth token" after an exchange answered with status 200 and a
\* body without an access token
C13_Witness ==
    \E t \in Tasks :
        /\ RefreshRequired(t) /\ Returned(t)
        /\ IsSome(StoredGoogle.access_token)
        /\ calls[t].resps = <<Http(200, Some(JObj(<<>>)))>>
        /\ ResultOf(t).error = Some("Failed to refresh OAuth token")

\* the number of requests the call made before its first endpoint request
BeforeEndpoints(t) == IF ExchangesFirst(t) THEN 1 ELSE 0

\* the number of endpoint requests of the call
EndpointRequests(t) == Len(calls[t].reqs) - BeforeEndpoints(t)

\* C14: the endpoint requests of a Google call go to the endpoints in list
\* order, the k-th only after the responses of all before it failed; after a
\* success status with a body that parses no further request is made and the
\* call returns ok=true with no error and the usage of that payload alone;
\* after the failure of all 3 it returns ok=false, configured=true, error
\* "Failed to fetch models".
C14_EndpointFailover ==
    \A t \in Tasks :
        (calls[t].op = "fetch" /\ calls[t].pid = "google" /\ EndpointRequests(t) > 0) =>
            LET c == calls[t]
                off == BeforeEndpoints(t)
                n == EndpointRequests(t)
            IN  /\ n <= Len(GOOGLE_ENDPOINTS)
                /\ \A k \in 1..n :
                     /\ c.reqs[off + k].url = GOOGLE_ENDPOINTS[k]
                     /\ \A j \in 1..(k - 1) : Failed(c.resps[off + j])
                /\ (Len(c.resps) = Len(c.reqs) /\ ~Failed(LastOf(c.resps))) =>
                     /\ Returned(t)
                     /\ ResultOf(t) =
                          build_result("google", "Google", TRUE, TRUE,
                                       Some(google_usage(Unwrap(LastOf(c.resps).body),
                                                         ResultOf(t).fetched_at)),
                                       None, ResultOf(t).fetched_at)
                /\ (Len(c.resps) = Len(c.reqs) /\ Failed(LastOf(c.resps))
                        /\ n = Len(GOOGLE_ENDPOINTS)) =>
                     /\ Returned(t)
                     /\ ~ResultOf(t).ok /\ ResultOf(t).configured
                     /\ ResultOf(t).error = Some("Failed to fetch models")
                /\ c.pc = "done" =>
                     (Failed(LastOf(c.resps)) => n = Len(GOOGLE_ENDPOINTS))

\* a Google call whose stored access token had expired has exchanged the
\* refresh token, met a failure at the first endpoint and a success at the
\* second, and returned ok with the models of the second's payload
C14_Witness ==
    \E t \in Tasks :
        /\ Returned(t) /\ RefreshRequired(t)
        /\ IsSome(StoredGoogle.access_token)
        /\ Len(calls[t].reqs) = 3 /\ ExchangesFirst(t)
        /\ Failed(calls[t].resps[2]) /\ ~Failed(calls[t].resps[3])
        /\ calls[t].reqs[3].url = GOOGLE_ENDPOINTS[2]
        /\ ResultOf(t).ok /\ ResultOf(t).error = None
        /\ IsSome(Unwrap(ResultOf(t).usage).models)

\* the error the OpenAI and z.ai adapters report for a failed response
ClassifiedError(r) ==
    IF r.k = "err" THEN Some(r.msg)
    ELSE IF r.status < 200 \/ r.status > 299
    THEN Some("API error: " \o ToString(r.status))
    ELSE Some(ParseMessage)

\* the call has returned after a request whose last response failed
ReturnedAfterFailure(t) ==
    /\ Returned(t) /\ calls[t].resps # <<>>
    /\ Failed(LastOf(calls[t].resps))
    /\ LastOf(calls[t].reqs).url # GOOGLE_TOKEN_URL

\* C15 as stated: for all three adapters a failed quota query returns
\* ok=false, configured=true and the error of its failure: the transport
\* message, "API error: s" for a non-success status s, or the parse message.
C15_UniformClassification ==
    \A t \in Tasks :
        ReturnedAfterFailure(t) =>
            /\ ~ResultOf(t).ok /\ ResultOf(t).configured
            /\ ResultOf(t).error = ClassifiedError(LastOf(calls[t].resps))

\* C15 as amended: a failed quota query returns ok=false, configured=true
\* for all three adapters; the error is that of the failure (transport
\* message, "API error: s", parse message) for OpenAI and z.ai, and "Failed
\* to fetch models" for Google, whatever the failures of its endpoints.
C15_ClassificationButGoogle ==
    \A t \in Tasks :
        ReturnedAfterFailure(t) =>
            /\ ~ResultOf(t).ok /\ ResultOf(t).configured
            /\ ResultOf(t).error =
                 IF calls[t].pid = "google"
                 THEN Some("Failed to fetch models")
                 ELSE ClassifiedError(LastOf(calls[t].resps))

\* a Google call has returned "Failed to fetch models" after its endpoints
\* answered with a transport error, a status 429 and an unparseable body
C15_Witness ==
    \E t \in Tasks :
        /\ ReturnedAfterFailure(t) /\ calls[t].pid = "google"
        /\ \E i, j, k \in 1..Len(calls[t].resps) :
             /\ calls[t].resps[i].k = "err"
             /\ calls[t].resps[j] = Http(429, None)
             /\ calls[t].resps[k] = Http(200, None)
             /\ calls[t].reqs[i].url # GOOGLE_TOKEN_URL
             /\ calls[t].reqs[j].url # GOOGLE_TOKEN_URL
             /\ calls[t].reqs[k].url # GOOGLE_TOKEN_URL
        /\ ResultOf(t).error = Some("Failed to fetch models")

\* the store holds a record under a Google alias that is a string or an
\* object, so that the Google credential comes from it
FromPrimary ==
    LET g == FirstPresent(store.json.o, <<"google", "antigravity">>) IN
    IsSome(g) /\ Unwrap(g).t \in {"str", "obj"}

\* the refresh token as stored, and the project id stored beside it: in the
\* primary record (which stores no project id), or in the account the
\* multi-account files supply
StoredRefresh ==
    IF FromPrimary
    THEN AsStr(JGet(Unwrap(FirstPresent(store.json.o, <<"google", "antigravity">>)), "refresh"))
    ELSE Unwrap(resolve_google_accounts(files, 1)).refresh_token

StoredProject ==
    IF FromPrimary THEN None ELSE Unwrap(resolve_google_accounts(files, 1)).project_id

\* the refresh token of the call's exchange and the project id of each of
\* its endpoint requests are these
SendsRefreshAndProject(t, refresh_token, project_id) ==
    LET c == calls[t] IN
    \A i \in 1..Len(c.reqs) :
        IF c.reqs[i].url = GOOGLE_TOKEN_URL
        THEN Unwrap(c.reqs[i].body).refresh_token = refresh_token
        ELSE Unwrap(c.reqs[i].body).project = project_id

\* C16 as stated: whichever source supplies the Google credential, a stored
\* refresh token with a '|' is split at the first '|' into the refresh token
\* of the exchange and the project id of the quota query, overriding a
\* project id stored beside it; one without '|' is used unchanged, with the
\* stored project id or else the built-in default.
C16_SplitFromEverySource ==
    \A t \in Tasks :
        (GoogleUnderWay(t) /\ IsSome(StoredRefresh)) =>
            LET raw == Unwrap(StoredRefresh) IN
            IF Len(raw) >= 2
            THEN SendsRefreshAndProject(t, S(raw[1]), Tail(raw))
            ELSE SendsRefreshAndProject(t, raw,
                     IF IsSome(StoredProject) THEN Unwrap(StoredProject)
                     ELSE S("rising-fact-p41fc"))

\* C16 as amended: a refresh token of the primary credential with a '|' is
\* split at the first '|' into the refresh token of the exchange and the
\* project id of the quota query; one without '|' is used unchanged with the
\* built-in default project id; a refresh token of a multi-account file is
\* used unchanged, '|' or not, with the account's projectId, else its
\* managedProjectId, else the built-in default.
C16_SplitFromPrimaryOnly ==
    \A t \in Tasks :
        (GoogleUnderWay(t) /\ IsSome(StoredRefresh)) =>
            LET raw == Unwrap(StoredRefresh) IN
            IF FromPrimary /\ Len(raw) >= 2
            THEN SendsRefreshAndProject(t, S(raw[1]), Tail(raw))
            ELSE SendsRefreshAndProject(t, raw,
                     IF IsSome(StoredProject) THEN Unwrap(StoredProject)
                     ELSE S("rising-fact-p41fc"))

\* a Google call whose primary record stores the refresh token "r|p|m" has
\* exchanged "r" and asked an endpoint with project "p|m"
C16_Witness ==
    \E t \in Tasks :
        /\ GoogleUnderWay(t) /\ FromPrimary
        /\ StoredRefresh = Some(<<"r", "p", "m">>)
        /\ Len(calls[t].reqs) >= 2
        /\ Unwrap(calls[t].reqs[1].body).refresh_token = S("r")
        /\ Unwrap(calls[t].reqs[2].body).project = <<"p", "m">>

\* the file exists, parses, and has a non-empty accounts list
ListsAccounts(f) ==
    /\ f.k = "text" /\ f.json.t = "obj"
    /\ "accounts" \in DOMAIN f.json.o
    /\ f.json.o["accounts"].t = "arr"
    /\ f.json.o["accounts"].a # <<>>

\* the account the file designates: the one at activeIndex when that is an
\* index of the list, the first one otherwise
ChosenAccount(f) ==
    LET accounts == f.json.o["accounts"].a
        inRange == /\ "activeIndex" \in DOMAIN f.json.o
                   /\ f.json.o["activeIndex"].t = "int"
                   /\ f.json.o["activeIndex"].n >= 0
                   /\ f.json.o["activeIndex"].n < Len(accounts)
    IN  IF inRange THEN accounts[f.json.o["activeIndex"].n + 1] ELSE accounts[1]

\* the file's chosen account has a refresh token
Supplies(f) ==
    /\ ListsAccounts(f)
    /\ ChosenAccount(f).t = "obj"
    /\ "refreshToken" \in DOMAIN ChosenAccount(f).o
    /\ ChosenAccount(f).o["refreshToken"].t = "str"

\* C17: when no primary Google credential resolves, a Google call takes its
\* refresh token from the first multi-account file, in path order, whose
\* chosen account has one (the account at activeIndex when 0 <= activeIndex
\* < number of accounts, the first account otherwise), passing over files
\* that are missing, unreadable, blank, malformed, without accounts, or
\* whose chosen account has no refresh token; when no file supplies one, the
\* call returns "Not configured" without a request; it never fails.
C17_MultiAccountSelection ==
    \A t \in Tasks :
        ( /\ calls[t].op = "fetch" /\ calls[t].pid = "google"
          /\ calls[t].pc \in {"await", "done"}
          /\ StoreIsObject /\ ~FromPrimary ) =>
            LET supplying == {i \in 1..Len(files) : Supplies(files[i])} IN
            /\ calls[t].pc = "done" => Returned(t)
            /\ IF supplying = {}
               THEN /\ calls[t].reqs = <<>> /\ Returned(t)
                    /\ ~ResultOf(t).configured
                    /\ ResultOf(t).error = Some("Not configured")
               ELSE LET first == CHOOSE i \in supplying : \A j \in supplying : i <= j
                    IN  /\ calls[t].reqs # <<>>
                        /\ calls[t].reqs[1].url = GOOGLE_TOKEN_URL
                        /\ Unwrap(calls[t].reqs[1].body).refresh_token
                             = ChosenAccount(files[first]).o["refreshToken"].s

\* a Google call has exchanged the refresh token of the second file's
\* account, the first file listing two accounts with an activeIndex out of
\* range and a first account without a refresh token
C17_Witness ==
    \E t \in Tasks :
        /\ calls[t].op = "fetch" /\ calls[t].pid = "google" /\ calls[t].pc = "done"
        /\ StoreIsObject /\ ~FromPrimary
        /\ ListsAccounts(files[1]) /\ ~Supplies(files[1])
        /\ Len(files[1].json.o["accounts"].a) = 2
        /\ files[1].json.o["activeIndex"].n >= 2
        /\ Supplies(files[2])
        /\ Unwrap(calls[t].reqs[1].body).refresh_token
             = ChosenAccount(files[2]).o["refreshToken"].s

\* listConfiguredProviders on the stored state returns the provider
Listed(p) == p \in Range(configured_providers(store.json.o, files))

\* the primary Google record holds an access, plain or refresh token
PrimaryHasToken ==
    LET g == FirstPresent(store.json.o, <<"google", "antigravity">>) IN
    HasField(g, "access") \/ HasPlainToken(g) \/ HasField(g, "refresh")

\* a fetchQuota call for a supported provider has returned its result
ReturnedSupported(t) ==
    Returned(t) /\ calls[t].pid \in SupportedIds /\ StoreIsObject

\* C18 as stated: a supported provider is listed if and only if fetchQuota
\* for it, on the same stored state, returns configured=true.
C18_ListedIffConfigured ==
    \A t \in Tasks :
        ReturnedSupported(t) => (Listed(calls[t].pid) <=> ResultOf(t).configured)

\* C18: "openai" and "zai-coding-plan" are listed if and only if fetchQuota
\* returns configured=true. "google" is listed iff its primary record holds
\* an access, plain or refresh token or some multi-account file has a
\* non-empty accounts list, while fetchQuota("google") returns
\* configured=true iff the primary record is a string or an object or some
\* multi-account file's chosen account has a refresh token; so the two
\* agree for "google" except for a primary record without any token (not
\* listed unless accounts are listed, configured=true) and, with no primary
\* record, for listed accounts none of whose files supplies a refresh token
\* (listed, configured=false).
C18_ListedVersusConfigured ==
    \A t \in Tasks :
        ReturnedSupported(t) =>
            IF calls[t].pid # "google"
            THEN Listed(calls[t].pid) <=> ResultOf(t).configured
            ELSE LET supplied == \E i \in 1..Len(files) : Supplies(files[i])
                     tokenless == FromPrimary /\ ~PrimaryHasToken /\ ~SomeAccountsListed
                     unusable == ~FromPrimary /\ SomeAccountsListed /\ ~supplied
                 IN  /\ Listed("google") <=> (PrimaryHasToken \/ SomeAccountsListed)
                     /\ ResultOf(t).configured <=> (FromPrimary \/ supplied)
                     /\ tokenless => ~Listed("google") /\ ResultOf(t).configured
                     /\ unusable => Listed("google") /\ ~ResultOf(t).configured
                     /\ ~(tokenless \/ unusable)
                          => (Listed("google") <=> ResultOf(t).configured)

\* fetchQuota("google") has returned configured=true with "Missing refresh
\* token" on a stored state for which "google" is not listed
C18_Witness ==
    \E t \in Tasks :
        /\ ReturnedSupported(t) /\ calls[t].pid = "google"
        /\ FromPrimary /\ ~PrimaryHasToken
        /\ ~Listed("google")
        /\ ResultOf(t).configured
        /\ ResultOf(t).error = Some("Missing refresh token")

\* the windows of a usage payload: its own and those of its models
WindowsOfUsage(u) ==
    {u.windows[label] : label \in DOMAIN u.windows}
    \cup (IF IsNone(u.models) THEN {}
          ELSE UNION { {Unwrap(u.models)[name].windows[label] :
                            label \in DOMAIN Unwrap(u.models)[name].windows} :
                        name \in DOMAIN Unwrap(u.models) })

\* every window of every result the calls have returned
ReturnedWindows ==
    UNION { WindowsOfUsage(Unwrap(ResultOf(t).usage)) :
              t \in {c \in Tasks : Returned(c) /\ IsSome(ResultOf(c).usage)} }

\* C19: in every window of every returned result, remaining is
\* max(0, 100 - used) when used is present (100 - used up to used = 100,
\* 0 above, never negative) and is absent when used is absent.
C19_RemainingComplement ==
    \A w \in ReturnedWindows :
        IF IsSome(w.used_percent)
        THEN /\ IsSome(w.remaining_percent)
             /\ Unwrap(w.remaining_percent) >= 0
             /\ Unwrap(w.remaining_percent) =
                  (IF Unwrap(w.used_percent) <= F64(100)
                   THEN F64(100) - Unwrap(w.used_percent) ELSE 0)
        ELSE IsNone(w.remaining_percent)

\* one returned result holds a window with used above 100 and remaining 0,
\* a window with used below 100 and remaining above 0, and a window with
\* neither used nor remaining
C19_Witness ==
    \E t \in Tasks :
        /\ Returned(t) /\ IsSome(ResultOf(t).usage)
        /\ LET ws == WindowsOfUsage(Unwrap(ResultOf(t).usage)) IN
           /\ \E w \in ws :
                 /\ IsSome(w.used_percent) /\ Unwrap(w.used_percent) > F64(100)
                 /\ w.remaining_percent = Some(0)
           /\ \E w \in ws :
                 /\ IsSome(w.used_percent) /\ Unwrap(w.used_percent) < F64(100)
                 /\ Unwrap(w.remaining_percent) > 0
           /\ \E w \in ws : IsNone(w.used_percent) /\ IsNone(w.remaining_percent)

\* C20: in every window of every returned result, resetAfterSeconds is
\* max(0, round((resetAtMillis - nowMillis) / 1000)), the difference rounded
\* to the nearest second, nowMillis being the time the result was built,
\* and is absent exactly when resetAtMillis is absent.
C20_ResetAfterRounded ==
    \A t \in Tasks :
        (Returned(t) /\ IsSome(ResultOf(t).usage)) =>
            \A w \in WindowsOfUsage(Unwrap(ResultOf(t).usage)) :
                IF IsSome(w.reset_at)
                THEN w.reset_after_seconds =
                       Some(Max(0, RoundF64(Unwrap(w.reset_at) - ResultOf(t).fetched_at)))
                ELSE IsNone(w.reset_after_seconds)

\* a returned window resets 1600 ms after the result was built and gives
\* resetAfterSeconds = 1
C20_Witness ==
    \E t \in Tasks :
        /\ Returned(t) /\ IsSome(ResultOf(t).usage)
        /\ \E w \in WindowsOfUsage(Unwrap(ResultOf(t).usage)) :
              /\ IsSome(w.reset_at)
              /\ Unwrap(w.reset_at) - ResultOf(t).fetched_at = 1600
              /\ w.reset_after_seconds = Some(1)

\* C21: in every window of every returned result resetAfterSeconds, when
\* present, is not negative, and it is 0 when the reset time is not after
\* the time the result was built (resetAt <= now).
C21_ResetAfterClamped ==
    \A t \in Tasks :
        (Returned(t) /\ IsSome(ResultOf(t).usage)) =>
            \A w \in WindowsOfUsage(Unwrap(ResultOf(t).usage)) :
                /\ IsSome(w.reset_after_seconds) => Unwrap(w.reset_after_seconds) >= 0
                /\ (IsSome(w.reset_at) /\ Unwrap(w.reset_at) <= ResultOf(t).fetched_at)
                      => w.reset_after_seconds = Some(0)

\* a returned window's reset time lies more than a second before the time
\* the result was built, and its resetAfterSeconds is 0
C21_Witness ==
    \E t \in Tasks :
        /\ Returned(t) /\ IsSome(ResultOf(t).usage)
        /\ \E w \in WindowsOfUsage(Unwrap(ResultOf(t).usage)) :
              /\ IsSome(w.reset_at)
              /\ Unwrap(w.reset_at) + 1000 < ResultOf(t).fetched_at
              /\ w.reset_after_seconds = Some(0)

\* the instant a reset value names, in epoch milliseconds: an integer below
\* 10^12 counts seconds, any other integer milliseconds, a string is read
\* as RFC3339; anything else names no instant
InstantMillis(value) ==
    LET num == AsI64(value)
        text == AsStr(value)
    IN  IF IsSome(num)
        THEN (IF Unwrap(num) \div 1000 < 1000000000
              THEN Some(Unwrap(num) * 1000) ELSE num)
        ELSE IF IsSome(text) THEN parse_from_rfc3339(Unwrap(text))
        ELSE None

\* the models of the payload a successful Google call was answered with
AnsweredModels(t) ==
    LET model_map == AsObject(JGet(Unwrap(LastOf(calls[t].resps).body), "models"))
    IN  IF IsSome(model_map) THEN Unwrap(model_map) ELSE <<>>

GoogleAnswered(t) ==
    Returned(t) /\ calls[t].pid = "google" /\ ResultOf(t).ok

\* C22: the window of every model a Google call returns has as resetAt the
\* instant quotaInfo.resetTime names, in epoch milliseconds, whether it is
\* given as integer epoch seconds, integer epoch milliseconds or an RFC3339
\* string, and has no resetAt when resetTime is missing or unparseable.
C22_GoogleResetInstant ==
    \A t \in Tasks :
        GoogleAnswered(t) =>
            \A name \in DOMAIN AnsweredModels(t) :
                Unwrap(Unwrap(ResultOf(t).usage).models)[name].windows["5h"].reset_at
                  = InstantMillis(OGet(JGet(AnsweredModels(t)[name], "quotaInfo"), "resetTime"))

\* a Google call has returned, for a model whose resetTime is the integer 4
\* (epoch seconds), a window with resetAt = 4, and for a model whose
\* resetTime is the RFC3339 text of the same instant, resetAt = 4000
C22_Witness ==
    \E t \in Tasks :
        /\ GoogleAnswered(t)
        /\ \E name \in DOMAIN AnsweredModels(t) :
              /\ OGet(JGet(AnsweredModels(t)[name], "quotaInfo"), "resetTime") = Some(JInt(4))
              /\ Unwrap(Unwrap(ResultOf(t).usage).models)[name].windows["5h"].reset_at = Some(4)
        /\ \E name \in DOMAIN AnsweredModels(t) :
              /\ IsSome(AsStr(OGet(JGet(AnsweredModels(t)[name], "quotaInfo"), "resetTime")))
              /\ Unwrap(Unwrap(ResultOf(t).usage).models)[name].windows["5h"].reset_at = Some(4000)

\* the window seconds the label is derived for
LabelSeconds ==
    {0, 1, 90, 3599, 3600, 5400, 18000, 86399, 86400, 90000, 172800,
     604800, 608400, 691200, 1209600}

\* the label of a window by its seconds
LabelOf(window_seconds) ==
    IF IsNone(window_seconds) THEN "tokens"
    ELSE LET w == Unwrap(window_seconds) IN
         IF w = 7 * 86400 THEN "weekly"
         ELSE IF (w \div 86400) * 86400 = w THEN ToString(w \div 86400) \o "d"
         ELSE IF (w \div 3600) * 3600 = w THEN ToString(w \div 3600) \o "h"
         ELSE ToString(w) \o "s"

\* the limits of the body a successful z.ai call was answered with
AnsweredLimits(t) ==
    LET arr == AsArray(OGet(JGet(Unwrap(LastOf(calls[t].resps).body), "data"), "limits"))
    IN  IF IsSome(arr) THEN Unwrap(arr) ELSE <<>>

IsTokensLimit(limit) ==
    /\ limit.t = "obj" /\ "type" \in DOMAIN limit.o
    /\ limit.o["type"] = JStr(S("TOKENS_LIMIT"))

\* number x 3600 when unit is 3, unknown otherwise
SecondsOf(limit) ==
    IF /\ "number" \in DOMAIN limit.o /\ limit.o["number"].t = "int"
       /\ "unit" \in DOMAIN limit.o /\ limit.o["unit"] = JInt(3)
    THEN Some(limit.o["number"].n * 3600)
    ELSE None

ZaiAnswered(t) ==
    Returned(t) /\ calls[t].pid = "zai-coding-plan" /\ ResultOf(t).ok

\* C23: a z.ai result has no window when no limits entry has type
\* "TOKENS_LIMIT" and otherwise exactly one, from the first such entry: its
\* window seconds are number x 3600 when unit is 3 and unknown otherwise,
\* and its label is the label of those seconds; and for every window
\* seconds w the label is "weekly" for 7 x 86400, else "Nd" for a multiple
\* of 86400, else "Nh" for a multiple of 3600, else "Ns", and "tokens" for
\* unknown seconds.
C23_ZaiWindowLabel ==
    /\ \A t \in Tasks :
          ZaiAnswered(t) =>
              LET limits == AnsweredLimits(t)
                  tokens == {i \in 1..Len(limits) : IsTokensLimit(limits[i])}
                  windows == Unwrap(ResultOf(t).usage).windows
              IN  IF tokens = {} THEN DOMAIN windows = {}
                  ELSE LET limit == limits[CHOOSE i \in tokens : \A j \in tokens : i <= j]
                       IN  /\ DOMAIN windows = {LabelOf(SecondsOf(limit))}
                           /\ windows[LabelOf(SecondsOf(limit))].window_seconds
                                = SecondsOf(limit)
    /\ \A w \in LabelSeconds : resolve_window_label(Some(w)) = LabelOf(Some(w))
    /\ resolve_window_label(None) = "tokens"
    /\ resolve_window_label(Some(86400)) = "1d"
    /\ resolve_window_label(Some(604800)) = "weekly"
    /\ resolve_window_label(Some(3600)) = "1h"

\* a z.ai call answered with a first TOKENS_LIMIT entry of 168 units of an
\* hour has returned one window, labelled "weekly", of 604800 seconds
C23_Witness ==
    \E t \in Tasks :
        /\ ZaiAnswered(t)
        /\ AnsweredLimits(t) # <<>>
        /\ SecondsOf(AnsweredLimits(t)[1]) = Some(604800)
        /\ DOMAIN Unwrap(ResultOf(t).usage).windows = {"weekly"}
        /\ Unwrap(ResultOf(t).usage).windows["weekly"].window_seconds = Some(604800)

===========================================================================
